---------------------------- MODULE Spec2Model ----------------------------
(***************************************************************************)
(* Model of the data-alchemist application: the page state held by Home    *)
(* (src/app/page.tsx), the validator DataValidator (src/lib/validation.ts) *)
(* and the weight normalizer of PriorityPanel (second component of         *)
(* src/components/grid/DataGrid.tsx).                                      *)
(*                                                                         *)
(* JavaScript strings are modelled as sequences of tokens: a token is one  *)
(* of the special characters  ,  space  [  ]  {  }  :  "  -  or an atom, a *)
(* maximal run of other characters.  JavaScript numbers are modelled by    *)
(* integers, except the priority weights, which are exact rationals.       *)
(***************************************************************************)
EXTENDS Integers, Sequences, FiniteSets, TLC

VARIABLES
    clients,            \* dataState.clients
    workers,            \* dataState.workers
    tasks,              \* dataState.tasks
    validationErrors,   \* dataState.validationErrors
    priorityWeights,    \* dataState.priorityWeights
    crashed,            \* a state updater threw: React unmounts the page
    steps,              \* number of handler calls so far (bounded exploration)
    prev,               \* the state object the last updater received: the
                        \* collections it held before (was) and holds now (held)
    normIn,             \* normalizer run: the record passed as props
    normField,          \* normalizer run: the field changed
    normValue,          \* normalizer run: the slider value
    normOut,            \* normalizer run: the record passed to onWeightsChange
    vpc,                \* validator run: "ready" or "done"
    vresult,            \* validator run: outcome of validateAll
    naturalLanguageRule,\* rule builder: the text typed into the rule box
    grid,               \* client grid: searchTerm, editingCell, editValue
    aiRecommendations,  \* rule builder: the recommendations displayed
    businessRules,      \* page: the rules of dataState
    aiCorrections       \* validation panel: the corrections displayed

vars == << clients, workers, tasks, validationErrors, priorityWeights, crashed,
           steps, prev, normIn, normField, normValue, normOut, vpc, vresult,
           naturalLanguageRule, grid, aiRecommendations, businessRules,
           aiCorrections >>

pageVars == << clients, workers, tasks, validationErrors, crashed, steps, prev >>
normVars == << normIn, normField, normValue, normOut >>
runVars == << vpc, vresult, naturalLanguageRule >>
uiVars == << grid, aiRecommendations, businessRules, aiCorrections >>

-----------------------------------------------------------------------------
(* Exact rational arithmetic for the priority weights.                     *)

RECURSIVE Gcd(_, _)
Gcd(a, b) == IF b = 0 THEN a ELSE Gcd(b, a % b)

Abs(x) == IF x < 0 THEN -x ELSE x

\* the rational n/d in lowest terms, d > 0
Rat(n, d) ==
    LET g == Gcd(Abs(n), Abs(d))
        s == IF d < 0 THEN -1 ELSE 1
    IN  [n |-> s * (n \div g), d |-> s * (d \div g)]

RatAdd(a, b) == Rat(a.n * b.d + b.n * a.d, a.d * b.d)
RatDiv(a, b) == Rat(a.n * b.d, a.d * b.n)
RatZero == Rat(0, 1)
RatOne == Rat(1, 1)

\* the keys of PriorityWeights, in the insertion order of the object literals
WeightFields ==
    << "priorityLevel", "taskFulfillment", "fairness", "workloadBalance",
       "skillMatch", "phasePreference" >>

WeightFieldSet == { WeightFields[i] : i \in 1..Len(WeightFields) }

RECURSIVE SumFrom(_, _)
SumFrom(w, i) ==
    IF i > Len(WeightFields) THEN RatZero
    ELSE RatAdd(w[WeightFields[i]], SumFrom(w, i + 1))

\* Object.values(w).reduce((sum, weight) => sum + weight, 0)
WeightTotal(w) == SumFrom(w, 1)

\* a weights record from six percentages
Percent(a, b, c, d, e, f) ==
    [ priorityLevel |-> Rat(a, 100), taskFulfillment |-> Rat(b, 100),
      fairness |-> Rat(c, 100), workloadBalance |-> Rat(d, 100),
      skillMatch |-> Rat(e, 100), phasePreference |-> Rat(f, 100) ]

InitialWeights == Percent(30, 25, 20, 15, 5, 5)

presetProfiles ==
    [ maximizeFulfillment |-> Percent(15, 35, 15, 15, 15, 5),
      fairDistribution    |-> Percent(20, 20, 30, 15, 10, 5),
      minimizeWorkload    |-> Percent(15, 20, 15, 35, 10, 5),
      skillOptimization   |-> Percent(20, 20, 15, 15, 25, 5),
      priorityFocused     |-> Percent(40, 25, 15, 10, 5, 5) ]

\* handleWeightChange with the total taken before the field is set
NormalizeWeights_StaleTotal(w, field, value) ==
    LET newWeights == [w EXCEPT ![field] = Rat(value, 100)]
        total == WeightTotal(w)
    IN  IF total.n > 0
        THEN [k \in WeightFieldSet |-> RatDiv(newWeights[k], total)]
        ELSE newWeights

\* the record handleWeightChange hands to onWeightsChange
NormalizeWeights(w, field, value) ==
    LET newWeights == [w EXCEPT ![field] = Rat(value, 100)]
        total == WeightTotal(newWeights)
    IN  IF total.n > 0
        THEN [k \in WeightFieldSet |-> RatDiv(newWeights[k], total)]
        ELSE newWeights

-----------------------------------------------------------------------------
(* JavaScript values: strings (token sequences), numbers, undefined, and   *)
(* arrays of numbers (kept as the text String(array) gives for them).      *)

Str(s) == [t |-> "str", s |-> s, n |-> 0]
Num(n) == [t |-> "num", s |-> << >>, n |-> n]
Undef == [t |-> "undef", s |-> << >>, n |-> 0]
Arr(s) == [t |-> "arr", s |-> s, n |-> 0]

\* the decimal numerals the model writes and reads, Numerals[n + 1] for n
Numerals ==
    << "0", "1", "2", "3", "4", "5", "6", "7", "8", "9", "10", "11", "12",
       "13", "14", "15" >>

IsNumeral(tok) == \E k \in 1..Len(Numerals) : Numerals[k] = tok
NumeralValue(tok) == (CHOOSE k \in 1..Len(Numerals) : Numerals[k] = tok) - 1

\* String(n) for a number
NumStr(n) == IF n < 0 THEN << "-", Numerals[1 - n] >> ELSE << Numerals[n + 1] >>

\* String(v), as a template literal `${v}` computes it
ToStr(v) ==
    CASE v.t = "str" -> v.s
      [] v.t = "arr" -> v.s
      [] v.t = "num" -> NumStr(v.n)
      [] OTHER -> << "undefined" >>

\* the truthiness of v
Truthy(v) ==
    CASE v.t = "str" -> v.s # << >>
      [] v.t = "arr" -> TRUE
      [] v.t = "num" -> v.n # 0
      [] OTHER -> FALSE

RECURSIVE SkipWs(_, _)
\* the first index from i on that holds no white space
SkipWs(s, i) == IF i <= Len(s) /\ s[i] = " " THEN SkipWs(s, i + 1) ELSE i

RECURSIVE SkipWsBack(_, _)
SkipWsBack(s, i) == IF i >= 1 /\ s[i] = " " THEN SkipWsBack(s, i - 1) ELSE i

\* String.prototype.trim
Trim(s) ==
    LET a == SkipWs(s, 1)
        b == SkipWsBack(s, Len(s))
    IN  IF a > b THEN << >> ELSE SubSeq(s, a, b)

RECURSIVE SplitFrom(_, _, _)
SplitFrom(s, i, cur) ==
    IF i > Len(s) THEN << cur >>
    ELSE IF s[i] = "," THEN << cur >> \o SplitFrom(s, i + 1, << >>)
    ELSE SplitFrom(s, i + 1, Append(cur, s[i]))

\* String.prototype.split(',')
Split(s) == SplitFrom(s, 1, << >>)

RECURSIVE MapTrim(_)
MapTrim(parts) ==
    IF parts = << >> THEN << >>
    ELSE << Trim(Head(parts)) >> \o MapTrim(Tail(parts))

\* s.split(',').map(x => x.trim())
SplitTrim(s) == MapTrim(Split(s))

\* ToNumber(v), for the relational operators
ToNumber(v) ==
    CASE v.t = "num" -> [nan |-> FALSE, n |-> v.n]
      [] v.t \in {"str", "arr"} ->
            LET x == Trim(v.s)
            IN  IF x = << >> THEN [nan |-> FALSE, n |-> 0]
                ELSE IF Len(x) = 1 /\ IsNumeral(x[1])
                     THEN [nan |-> FALSE, n |-> NumeralValue(x[1])]
                ELSE IF Len(x) = 2 /\ x[1] = "-" /\ IsNumeral(x[2])
                     THEN [nan |-> FALSE, n |-> 0 - NumeralValue(x[2])]
                ELSE [nan |-> TRUE, n |-> 0]
      [] OTHER -> [nan |-> TRUE, n |-> 0]

\* a < b, with at least one operand a number
JsLess(a, b) ==
    LET x == ToNumber(a)
        y == ToNumber(b)
    IN  ~x.nan /\ ~y.nan /\ x.n < y.n

-----------------------------------------------------------------------------
(* JSON.parse, reduced to what its callers read from the result: whether   *)
(* the text parses, the kind of the value, and for an array its length and *)
(* whether every element is a number.                                      *)

ParseFail == [ok |-> FALSE, pos |-> 0, kind |-> "none", len |-> 0, allNum |-> FALSE]
Parsed(pos, kind, len, allNum) ==
    [ok |-> TRUE, pos |-> pos, kind |-> kind, len |-> len, allNum |-> allNum]

RECURSIVE ParseValue(_, _)
RECURSIVE ParseElems(_, _, _, _)
RECURSIVE ParseMembers(_, _)
RECURSIVE ParseStringRest(_, _)

\* the characters of a string literal up to its closing quote
ParseStringRest(s, i) ==
    IF i > Len(s) THEN ParseFail
    ELSE IF s[i] = "\"" THEN Parsed(i + 1, "str", 0, FALSE)
    ELSE ParseStringRest(s, i + 1)

\* the first index after the parsed value v that holds no white space
NextToken(s, v) == IF v.ok THEN SkipWs(s, v.pos) ELSE 0

\* what follows an array element at j: a comma, or the closing bracket
ElemsAt(s, ok, j, cnt, allNum) ==
    IF ~ok \/ j > Len(s) THEN ParseFail
    ELSE IF s[j] = "," THEN ParseElems(s, j + 1, cnt, allNum)
    ELSE IF s[j] = "]" THEN Parsed(j + 1, "arr", cnt, allNum)
    ELSE ParseFail

\* the array element v is the one after the first cnt
AfterElem(s, v, cnt, allNum) ==
    ElemsAt(s, v.ok, NextToken(s, v), cnt + 1, allNum /\ v.kind = "num")

\* the elements of an array after the first cnt of them
ParseElems(s, i, cnt, allNum) == AfterElem(s, ParseValue(s, i), cnt, allNum)

\* what follows an object member at j: a comma, or the closing brace
MembersAt(s, ok, j) ==
    IF ~ok \/ j > Len(s) THEN ParseFail
    ELSE IF s[j] = "," THEN ParseMembers(s, j + 1)
    ELSE IF s[j] = "}" THEN Parsed(j + 1, "obj", 0, FALSE)
    ELSE ParseFail

AfterMember(s, v) == MembersAt(s, v.ok, NextToken(s, v))

\* the colon at c and the value of a member whose key has parsed
MemberValue(s, ok, c) ==
    AfterMember(s, IF ok /\ c <= Len(s) /\ s[c] = ":" THEN ParseValue(s, c + 1)
                   ELSE ParseFail)

AfterKey(s, key) == MemberValue(s, key.ok, NextToken(s, key))

\* the key of a member at k, a string literal
MemberAt(s, k) ==
    AfterKey(s, IF k <= Len(s) /\ s[k] = "\"" THEN ParseStringRest(s, k + 1)
                ELSE ParseFail)

\* the members of an object: "key" : value
ParseMembers(s, i) == MemberAt(s, SkipWs(s, i))

\* an array whose first token after the bracket is at j
ArrayAt(s, j) ==
    IF j <= Len(s) /\ s[j] = "]" THEN Parsed(j + 1, "arr", 0, TRUE)
    ELSE ParseElems(s, j, 0, TRUE)

\* an object whose first token after the brace is at j
ObjectAt(s, j) ==
    IF j <= Len(s) /\ s[j] = "}" THEN Parsed(j + 1, "obj", 0, FALSE)
    ELSE ParseMembers(s, j)

\* the value that starts at the token i
ValueAt(s, i) ==
    IF i > Len(s) THEN ParseFail
    ELSE CASE s[i] = "[" -> ArrayAt(s, SkipWs(s, i + 1))
           [] s[i] = "{" -> ObjectAt(s, SkipWs(s, i + 1))
           [] s[i] = "\"" -> ParseStringRest(s, i + 1)
           [] s[i] = "-" ->
                IF i + 1 <= Len(s) /\ IsNumeral(s[i + 1])
                THEN Parsed(i + 2, "num", 0, FALSE)
                ELSE ParseFail
           [] IsNumeral(s[i]) -> Parsed(i + 1, "num", 0, FALSE)
           [] s[i] \in {"true", "false", "null"} -> Parsed(i + 1, "lit", 0, FALSE)
           [] OTHER -> ParseFail

ParseValue(s, i0) == ValueAt(s, SkipWs(s, i0))

\* a text parses when nothing but white space follows its value
WholeText(s, r) == IF r.ok /\ SkipWs(s, r.pos) > Len(s) THEN r ELSE ParseFail

ParseText(s) == WholeText(s, ParseValue(s, 1))

\* JSON.parse(v): v is converted to a string first; ok = FALSE is a SyntaxError
JSONParse(v) == ParseText(ToStr(v))

-----------------------------------------------------------------------------
(* DataValidator.  A check returns [threw, errors]: threw = TRUE when the  *)
(* code raises a TypeError (a method call on a value that has no such      *)
(* method), which ends validateAll without a result.                       *)

Ok(errs) == [threw |-> FALSE, errors |-> errs]
Threw == [threw |-> TRUE, errors |-> << >>]

\* errors.push(...next) after the checks so far
Then(sofar, next) ==
    IF sofar.threw \/ next.threw THEN Threw ELSE Ok(sofar.errors \o next.errors)

\* a ValidationError; field = "none" when the literal has no field key
ValidationError(id, type, message, entity, entityId, field, suggestion) ==
    [ id |-> id, type |-> type, message |-> message, entity |-> entity,
      entityId |-> entityId, field |-> field, suggestion |-> suggestion ]

RECURSIVE ForEach(_, _, _)
\* rows.forEach(row => errors.push(...)) from row i on; Body(row) is [threw, errors]
ForEach(Body(_), rows, i) ==
    IF i > Len(rows) THEN Ok(<< >>)
    ELSE LET r == Body(rows[i])
         IN  IF r.threw THEN Threw ELSE Then(r, ForEach(Body, rows, i + 1))

requiredClientFields == << "ClientID", "ClientName", "PriorityLevel" >>

validateMissingColumns(cs) ==
    LET Missing(client, field) ==
            IF ~Truthy(client[field]) \/ client[field] = Str(<< >>)
            THEN << ValidationError(
                      << "missing-" >> \o ToStr(client.ClientID) \o << "-", field >>,
                      "error", << "Missing required field: ", field >>,
                      "client", client.ClientID, field,
                      << "Please provide a value for ", field >>) >>
            ELSE << >>
        PerClient(client) ==
            Ok(Missing(client, requiredClientFields[1])
               \o Missing(client, requiredClientFields[2])
               \o Missing(client, requiredClientFields[3]))
    IN  ForEach(PerClient, cs, 1)

RECURSIVE DuplicateScan_FlagsOnce(_, _, _, _, _, _)
\* a scan that forgets an ID once it has flagged it
DuplicateScan_FlagsOnce(rows, i, seen, key, entity, label) ==
    IF i > Len(rows) THEN << >>
    ELSE LET id == rows[i][key]
             here == IF id \in seen
                     THEN << ValidationError(
                               << "duplicate-", entity, "-" >> \o ToStr(id),
                               "error", << "Duplicate ", label, ": " >> \o ToStr(id),
                               entity, id, "none",
                               << "Ensure all ", label, "s are unique" >>) >>
                     ELSE << >>
             next == IF id \in seen THEN seen \ {id} ELSE seen \cup {id}
         IN  here \o DuplicateScan_FlagsOnce(rows, i + 1, next, key, entity, label)

RECURSIVE DuplicateScan(_, _, _, _, _, _)
\* one forEach of validateDuplicateIDs, with the Set of IDs seen so far
DuplicateScan(rows, i, seen, key, entity, label) ==
    IF i > Len(rows) THEN << >>
    ELSE LET id == rows[i][key]
             here == IF id \in seen
                     THEN << ValidationError(
                               << "duplicate-", entity, "-" >> \o ToStr(id),
                               "error", << "Duplicate ", label, ": " >> \o ToStr(id),
                               entity, id, "none",
                               << "Ensure all ", label, "s are unique" >>) >>
                     ELSE << >>
         IN  here \o DuplicateScan(rows, i + 1, seen \cup {id}, key, entity, label)

validateDuplicateIDs(cs, ws, ts) ==
    Ok(DuplicateScan(cs, 1, {}, "ClientID", "client", "ClientID")
       \o DuplicateScan(ws, 1, {}, "WorkerID", "worker", "WorkerID")
       \o DuplicateScan(ts, 1, {}, "TaskID", "task", "TaskID"))

SlotsSuggestion == << "AvailableSlots should be an array of numbers, e.g., [1,2,3]" >>

\* the check without the test of the elements
validateMalformedLists_ArrayOnly(ws) ==
    LET PerWorker(worker) ==
            LET slots == JSONParse(worker.AvailableSlots)
            IN  IF slots.ok
                THEN IF slots.kind # "arr"
                     THEN Ok(<< ValidationError(
                                  << "malformed-slots-" >> \o ToStr(worker.WorkerID),
                                  "error",
                                  << "Malformed AvailableSlots: " >> \o ToStr(worker.AvailableSlots),
                                  "worker", worker.WorkerID, "AvailableSlots",
                                  SlotsSuggestion) >>)
                     ELSE Ok(<< >>)
                ELSE Ok(<< ValidationError(
                             << "invalid-slots-" >> \o ToStr(worker.WorkerID),
                             "error",
                             << "Invalid AvailableSlots format: " >> \o ToStr(worker.AvailableSlots),
                             "worker", worker.WorkerID, "AvailableSlots",
                             SlotsSuggestion) >>)
    IN  ForEach(PerWorker, ws, 1)

validateMalformedLists(ws) ==
    LET PerWorker(worker) ==
            LET slots == JSONParse(worker.AvailableSlots)
            IN  IF slots.ok
                THEN IF slots.kind # "arr" \/ ~slots.allNum
                     THEN Ok(<< ValidationError(
                                  << "malformed-slots-" >> \o ToStr(worker.WorkerID),
                                  "error",
                                  << "Malformed AvailableSlots: " >> \o ToStr(worker.AvailableSlots),
                                  "worker", worker.WorkerID, "AvailableSlots",
                                  SlotsSuggestion) >>)
                     ELSE Ok(<< >>)
                ELSE Ok(<< ValidationError(
                             << "invalid-slots-" >> \o ToStr(worker.WorkerID),
                             "error",
                             << "Invalid AvailableSlots format: " >> \o ToStr(worker.AvailableSlots),
                             "worker", worker.WorkerID, "AvailableSlots",
                             SlotsSuggestion) >>)
    IN  ForEach(PerWorker, ws, 1)

validateOutOfRangeValues(cs, ts) ==
    LET PerClient(client) ==
            IF JsLess(client.PriorityLevel, Num(1)) \/ JsLess(Num(5), client.PriorityLevel)
            THEN Ok(<< ValidationError(
                         << "priority-range-" >> \o ToStr(client.ClientID),
                         "error",
                         << "PriorityLevel out of range: " >> \o ToStr(client.PriorityLevel),
                         "client", client.ClientID, "PriorityLevel",
                         << "PriorityLevel must be between 1 and 5" >>) >>)
            ELSE Ok(<< >>)
        PerTask(task) ==
            IF JsLess(task.Duration, Num(1))
            THEN Ok(<< ValidationError(
                         << "duration-range-" >> \o ToStr(task.TaskID),
                         "error",
                         << "Duration must be at least 1: " >> \o ToStr(task.Duration),
                         "task", task.TaskID, "Duration",
                         << "Duration should be a positive number" >>) >>)
            ELSE Ok(<< >>)
    IN  Then(ForEach(PerClient, cs, 1), ForEach(PerTask, ts, 1))

validateBrokenJSON(cs) ==
    LET PerClient(client) ==
            IF ~Truthy(client.AttributesJSON) THEN Ok(<< >>)
            ELSE IF client.AttributesJSON.t # "str" THEN Threw   \* no method trim
            ELSE IF Trim(client.AttributesJSON.s) = << >> THEN Ok(<< >>)
            ELSE IF JSONParse(client.AttributesJSON).ok THEN Ok(<< >>)
            ELSE Ok(<< ValidationError(
                         << "broken-json-" >> \o ToStr(client.ClientID),
                         "error", << "Invalid JSON in AttributesJSON" >>,
                         "client", client.ClientID, "AttributesJSON",
                         << "Please provide valid JSON format" >>) >>)
    IN  ForEach(PerClient, cs, 1)

\* the set of the elements of a sequence
Range(seq) == { seq[i] : i \in 1..Len(seq) }

RECURSIVE FlatMap(_, _, _)
\* the concatenation of Item(seq[i]), ..., Item(seq[Len(seq)])
FlatMap(Item(_), seq, i) ==
    IF i > Len(seq) THEN << >> ELSE Item(seq[i]) \o FlatMap(Item, seq, i + 1)

\* the requested IDs without the trim
RequestedIds_NoTrim(client) == Split(client.RequestedTaskIDs.s)

\* client.RequestedTaskIDs.split(',').map(id => id.trim())
RequestedIds(client) == SplitTrim(client.RequestedTaskIDs.s)

validateUnknownReferences(cs, ts) ==
    LET taskIds == { ts[i].TaskID : i \in 1..Len(ts) }
        PerClient(client) ==
            IF ~Truthy(client.RequestedTaskIDs) THEN Ok(<< >>)
            ELSE IF client.RequestedTaskIDs.t # "str" THEN Threw   \* no method split
            ELSE LET requestedIds == RequestedIds(client)
                     PerId(taskId) ==
                        IF Str(taskId) \notin taskIds
                        THEN << ValidationError(
                                  << "unknown-task-" >> \o ToStr(client.ClientID)
                                      \o << "-" >> \o taskId,
                                  "error",
                                  << "Unknown TaskID referenced: " >> \o taskId,
                                  "client", client.ClientID, "RequestedTaskIDs",
                                  << "TaskID " >> \o taskId
                                      \o << " does not exist in tasks data" >>) >>
                        ELSE << >>
                 IN  Ok(FlatMap(PerId, requestedIds, 1))
    IN  ForEach(PerClient, cs, 1)

\* placeholder
validateCircularCoRuns == Ok(<< >>)

\* the overload test with <= for <
IsOverloaded_OrEqual(worker) ==
    LET slots == JSONParse(worker.AvailableSlots)
    IN  slots.ok /\ slots.kind = "arr"
        /\ ~JsLess(worker.MaxLoadPerPhase, Num(slots.len))
        /\ ~ToNumber(worker.MaxLoadPerPhase).nan

\* Array.isArray(slots) && slots.length < worker.MaxLoadPerPhase, inside the try
IsOverloaded(worker) ==
    LET slots == JSONParse(worker.AvailableSlots)
    IN  slots.ok /\ slots.kind = "arr" /\ JsLess(Num(slots.len), worker.MaxLoadPerPhase)

validateOverloadedWorkers(ws) ==
    LET PerWorker(worker) ==
            LET slots == JSONParse(worker.AvailableSlots)
            IN  IF IsOverloaded(worker)
                THEN Ok(<< ValidationError(
                             << "overloaded-" >> \o ToStr(worker.WorkerID),
                             "warning",
                             << "Worker has more MaxLoadPerPhase (" >>
                                 \o ToStr(worker.MaxLoadPerPhase)
                                 \o << ") than AvailableSlots (" >>
                                 \o NumStr(slots.len) \o << ")" >>,
                             "worker", worker.WorkerID, "none",
                             << "Consider reducing MaxLoadPerPhase or increasing AvailableSlots" >>) >>)
                ELSE Ok(<< >>)
    IN  ForEach(PerWorker, ws, 1)

\* placeholder
validatePhaseSlotSaturation == Ok(<< >>)

validateSkillCoverage(ws, ts) ==
    LET \* workers.forEach: throws at the first worker whose Skills has no split
        workersThrow == \E i \in 1..Len(ws) : ws[i].Skills.t # "str"
        workerSkills ==
            UNION { Range(SplitTrim(ws[i].Skills.s)) : i \in 1..Len(ws) }
        PerTask(task) ==
            IF task.RequiredSkills.t # "str" THEN Threw
            ELSE LET requiredSkills == SplitTrim(task.RequiredSkills.s)
                     PerSkill(skill) ==
                        IF skill \notin workerSkills
                        THEN << ValidationError(
                                  << "skill-coverage-" >> \o ToStr(task.TaskID)
                                      \o << "-" >> \o skill,
                                  "error",
                                  << "No worker has required skill: " >> \o skill,
                                  "task", task.TaskID, "RequiredSkills",
                                  << "Add workers with skill \"" >> \o skill
                                      \o << "\" or remove this skill requirement" >>) >>
                        ELSE << >>
                 IN  Ok(FlatMap(PerSkill, requiredSkills, 1))
    IN  IF workersThrow THEN Threw ELSE ForEach(PerTask, ts, 1)

RECURSIVE CountQualified(_, _, _)
\* workers.filter(...).length from worker i on; threw when a Skills has no split
CountQualified(ws, requiredSkills, i) ==
    IF i > Len(ws) THEN [threw |-> FALSE, n |-> 0]
    ELSE IF ws[i].Skills.t # "str" THEN [threw |-> TRUE, n |-> 0]
    ELSE LET workerSkills == SplitTrim(ws[i].Skills.s)
             every == \A k \in 1..Len(requiredSkills) :
                          \E m \in 1..Len(workerSkills) : workerSkills[m] = requiredSkills[k]
             rest == CountQualified(ws, requiredSkills, i + 1)
         IN  [threw |-> rest.threw, n |-> rest.n + (IF every THEN 1 ELSE 0)]

validateMaxConcurrency(ws, ts) ==
    LET PerTask(task) ==
            IF task.RequiredSkills.t # "str" THEN Threw
            ELSE LET requiredSkills == SplitTrim(task.RequiredSkills.s)
                     qualifiedWorkers == CountQualified(ws, requiredSkills, 1)
                 IN  IF qualifiedWorkers.threw THEN Threw
                     ELSE IF JsLess(Num(qualifiedWorkers.n), task.MaxConcurrent)
                     THEN Ok(<< ValidationError(
                                  << "max-concurrent-" >> \o ToStr(task.TaskID),
                                  "warning",
                                  << "MaxConcurrent (" >> \o ToStr(task.MaxConcurrent)
                                      \o << ") exceeds qualified workers (" >>
                                      \o NumStr(qualifiedWorkers.n) \o << ")" >>,
                                  "task", task.TaskID, "MaxConcurrent",
                                  << "Consider reducing MaxConcurrent to " >>
                                      \o NumStr(qualifiedWorkers.n)
                                      \o << " or adding more qualified workers" >>) >>)
                     ELSE Ok(<< >>)
    IN  ForEach(PerTask, ts, 1)

\* placeholder
validateConflictingRules == Ok(<< >>)

\* validateAll with the overload check moved before the reference check
validateAll_Reordered(cs, ws, ts) ==
    Then(Then(Then(Then(Then(Then(Then(Then(Then(Then(Then(
        validateMissingColumns(cs),
        validateDuplicateIDs(cs, ws, ts)),
        validateMalformedLists(ws)),
        validateOutOfRangeValues(cs, ts)),
        validateBrokenJSON(cs)),
        validateOverloadedWorkers(ws)),
        validateCircularCoRuns),
        validateUnknownReferences(cs, ts)),
        validatePhaseSlotSaturation),
        validateSkillCoverage(ws, ts)),
        validateMaxConcurrency(ws, ts)),
        validateConflictingRules)

\* new DataValidator(cs, ws, ts).validateAll()
validateAll(cs, ws, ts) ==
    Then(Then(Then(Then(Then(Then(Then(Then(Then(Then(Then(
        validateMissingColumns(cs),
        validateDuplicateIDs(cs, ws, ts)),
        validateMalformedLists(ws)),
        validateOutOfRangeValues(cs, ts)),
        validateBrokenJSON(cs)),
        validateUnknownReferences(cs, ts)),
        validateCircularCoRuns),
        validateOverloadedWorkers(ws)),
        validatePhaseSlotSaturation),
        validateSkillCoverage(ws, ts)),
        validateMaxConcurrency(ws, ts)),
        validateConflictingRules)

-----------------------------------------------------------------------------
(* Entity records.  A key the row does not have holds Undef.               *)

Client(id, name, level, requested, tag, attrs) ==
    [ ClientID |-> id, ClientName |-> name, PriorityLevel |-> level,
      RequestedTaskIDs |-> requested, GroupTag |-> tag, AttributesJSON |-> attrs ]

Worker(id, name, skills, slots, maxLoad, group, qualification) ==
    [ WorkerID |-> id, WorkerName |-> name, Skills |-> skills,
      AvailableSlots |-> slots, MaxLoadPerPhase |-> maxLoad,
      WorkerGroup |-> group, QualificationLevel |-> qualification ]

Task(id, name, category, duration, skills, phases, maxConcurrent) ==
    [ TaskID |-> id, TaskName |-> name, Category |-> category,
      Duration |-> duration, RequiredSkills |-> skills,
      PreferredPhases |-> phases, MaxConcurrent |-> maxConcurrent ]

\* "x" : "y" inside a JSON object text
JsonPair(key, value) == << "\"", key, "\"", ":", " ", "\"" >> \o value \o << "\"" >>

\* FileParser.generateSampleData()
generateSampleData ==
    [ clients |->
        << Client(Str(<< "C001" >>), Str(<< "TechCorp", " ", "Solutions" >>), Num(5),
                  Str(<< "T001", ",", "T002", ",", "T003" >>), Str(<< "Enterprise" >>),
                  Str(<< "{" >> \o JsonPair("industry", << "Technology" >>) \o << ",", " " >>
                      \o JsonPair("size", << "Large" >>) \o << "}" >>)),
           Client(Str(<< "C002" >>), Str(<< "Healthcare", " ", "Plus" >>), Num(4),
                  Str(<< "T004", ",", "T005" >>), Str(<< "Healthcare" >>),
                  Str(<< "{" >> \o JsonPair("industry", << "Healthcare" >>) \o << ",", " " >>
                      \o JsonPair("compliance", << "HIPAA" >>) \o << "}" >>)),
           Client(Str(<< "C003" >>), Str(<< "StartupX" >>), Num(2),
                  Str(<< "T006", ",", "T007" >>), Str(<< "Startup" >>),
                  Str(<< "{" >> \o JsonPair("stage", << "Series", " ", "A" >>) \o << ",", " " >>
                      \o << "\"", "team_size", "\"", ":", " ", "15", "}" >>)) >>,
      workers |->
        << Worker(Str(<< "W001" >>), Str(<< "Alice", " ", "Johnson" >>),
                  Str(<< "JavaScript", ",", "React", ",", "Node.js" >>),
                  Str(<< "[", "1", ",", "2", ",", "3", ",", "4", ",", "5", "]" >>),
                  Num(3), Str(<< "Frontend" >>), Num(5)),
           Worker(Str(<< "W002" >>), Str(<< "Bob", " ", "Smith" >>),
                  Str(<< "Python", ",", "Django", ",", "PostgreSQL" >>),
                  Str(<< "[", "1", ",", "3", ",", "5", "]" >>),
                  Num(2), Str(<< "Backend" >>), Num(4)),
           Worker(Str(<< "W003" >>), Str(<< "Carol", " ", "Davis" >>),
                  Str(<< "Java", ",", "Spring", ",", "MongoDB" >>),
                  Str(<< "[", "2", ",", "4", ",", "6", "]" >>),
                  Num(2), Str(<< "Backend" >>), Num(4)),
           Worker(Str(<< "W004" >>), Str(<< "David", " ", "Wilson" >>),
                  Str(<< "React", ",", "TypeScript", ",", "GraphQL" >>),
                  Str(<< "[", "1", ",", "2", ",", "3", "]" >>),
                  Num(3), Str(<< "Frontend" >>), Num(5)) >>,
      tasks |->
        << Task(Str(<< "T001" >>), Str(<< "Frontend", " ", "Development" >>),
                Str(<< "Development" >>), Num(3), Str(<< "JavaScript", ",", "React" >>),
                Str(<< "[", "1", ",", "2", ",", "3", "]" >>), Num(2)),
           Task(Str(<< "T002" >>), Str(<< "API", " ", "Integration" >>),
                Str(<< "Integration" >>), Num(2), Str(<< "JavaScript", ",", "Node.js" >>),
                Str(<< "[", "2", ",", "3", ",", "4", "]" >>), Num(1)),
           Task(Str(<< "T003" >>), Str(<< "Database", " ", "Design" >>),
                Str(<< "Database" >>), Num(4), Str(<< "PostgreSQL" >>),
                Str(<< "[", "1", ",", "2", "]" >>), Num(1)),
           Task(Str(<< "T004" >>), Str(<< "HIPAA", " ", "Compliance" >>),
                Str(<< "Compliance" >>), Num(2), Str(<< "Java", ",", "Spring" >>),
                Str(<< "[", "3", ",", "4", ",", "5", "]" >>), Num(1)),
           Task(Str(<< "T005" >>), Str(<< "Healthcare", " ", "Dashboard" >>),
                Str(<< "UI/UX" >>), Num(3), Str(<< "React", ",", "TypeScript" >>),
                Str(<< "[", "4", ",", "5", ",", "6", "]" >>), Num(2)),
           Task(Str(<< "T006" >>), Str(<< "MVP", " ", "Development" >>),
                Str(<< "Development" >>), Num(5), Str(<< "Python", ",", "Django" >>),
                Str(<< "[", "1", ",", "2", ",", "3", ",", "4", ",", "5", "]" >>), Num(1)),
           Task(Str(<< "T007" >>), Str(<< "Mobile", " ", "App" >>),
                Str(<< "Mobile" >>), Num(4), Str(<< "React", ",", "GraphQL" >>),
                Str(<< "[", "3", ",", "4", ",", "5", ",", "6", "]" >>), Num(1)) >> ]

-----------------------------------------------------------------------------
(* Bounds and input sets.                                                  *)

MaxSteps == 3            \* handler calls explored from the initial page
MaxUploadRows == 1       \* rows of an uploaded or replaced collection
MaxDenominator == 14     \* slider moves explored keep the weights on this grid
MaxStartQuarters == 2    \* start weights of a normalizer run: 0/4 .. this/4
MaxRows == 3             \* rows of the collection a validator run varies
MaxMixedRows == 2        \* rows per collection of a validator run on mixed rows

\* the slider positions explored (the slider runs from 0 to 100 in steps of 5)
SliderValues == {0, 25, 50, 75, 100}

\* the non-empty sequences over S of length at most n
SeqsUpTo(S, n) == UNION { [1..k -> S] : k \in 1..n }

NoText == Str(<< >>)

\* rows as FileParser hands them to onDataUploaded, after normalizeRow
PageClientRows ==
    { Client(Str(<< "C1" >>), Str(<< "Acme" >>), Num(3), Str(<< "T1" >>),
             Str(<< "g" >>), NoText),
      Client(Str(<< "C2" >>), Str(<< "Bolt" >>), Num(1), Str(<< "T1", ",", " ", "T9" >>),
             Str(<< "g" >>), Str(<< "{", "}" >>)) }

\* W1 from a sheet whose AvailableSlots cell reads [1,2], which normalizeRow
\* parses into an array; W2 from a sheet without a Skills column whose cell
\* reads 1,2, which normalizeRow rewrites as the text [1,2]
PageWorkerRows ==
    { Worker(Str(<< "W1" >>), Str(<< "Ann" >>), Str(<< "a", ",", "b" >>),
             Arr(<< "1", ",", "2" >>), Num(2), Str(<< "g" >>), Num(1)),
      Worker(Str(<< "W2" >>), Str(<< "Bob" >>), Undef,
             Str(<< "[", "1", ",", "2", "]" >>), Num(3), Str(<< "g" >>), Num(1)) }

PageTaskRows ==
    { Task(Str(<< "T1" >>), Str(<< "Build" >>), Str(<< "k" >>), Num(2),
           Str(<< "a" >>), Str(<< "[", "1", "]" >>), Num(1)),
      Task(Str(<< "T2" >>), Str(<< "Ship" >>), Str(<< "k" >>), Num(0),
           Str(<< "c" >>), Str(<< "[", "1", "]" >>), Num(2)) }

\* the cell edits explored: the text typed into the cell's input
PageEdits ==
    { [entity |-> "client", field |-> "PriorityLevel", text |-> << "0" >>],
      [entity |-> "client", field |-> "RequestedTaskIDs", text |-> << "T2" >>],
      [entity |-> "worker", field |-> "Skills", text |-> << "7" >>],
      [entity |-> "worker", field |-> "AvailableSlots", text |-> << "[", "1", "]" >>],
      [entity |-> "task", field |-> "RequiredSkills", text |-> << "z" >>],
      [entity |-> "task", field |-> "Duration", text |-> << "0" >>] }

\* saveEdit: a text of digits becomes a number, any other text stays a string
ProcessEditValue(text) ==
    IF Len(text) = 1 /\ IsNumeral(text[1]) THEN Num(NumeralValue(text[1])) ELSE Str(text)

-----------------------------------------------------------------------------
(* Home: the page state and its handlers.                                  *)

NoRun == [threw |-> FALSE, errors |-> << >>]

\* the three collections of a state object
Collections(cs, ws, ts) == [clients |-> cs, workers |-> ws, tasks |-> ts]

NoPrev == [ op |-> "none", was |-> Collections(<< >>, << >>, << >>),
            held |-> Collections(<< >>, << >>, << >>) ]

\* the updater of handler op received the stored state object; afterwards that
\* object holds the collections cs, ws, ts
Received(op, cs, ws, ts) ==
    prev' = [ op |-> op, was |-> Collections(clients, workers, tasks),
              held |-> Collections(cs, ws, ts) ]

\* no cell of the grid is being edited
NoCell == [row |-> 0, field |-> "none"]

\* the grid, the recommendation list and the rules after the first render
InitUi ==
    /\ grid = [searchTerm |-> << >>, editingCell |-> NoCell, editValue |-> << >>]
    /\ aiRecommendations = << >>
    /\ businessRules = << >>
    /\ aiCorrections = << >>

InitPage ==
    /\ clients = << >>
    /\ workers = << >>
    /\ tasks = << >>
    /\ validationErrors = << >>
    /\ priorityWeights = InitialWeights
    /\ crashed = FALSE
    /\ steps = 0
    /\ prev = NoPrev
    /\ normIn = InitialWeights
    /\ normField = "none"
    /\ normValue = 0
    /\ normOut = InitialWeights
    /\ vpc = "idle"
    /\ vresult = NoRun
    /\ naturalLanguageRule = << >>
    /\ InitUi

\* the end of a setDataState updater: validate newState and return it; when
\* validateAll throws the updater returns nothing and the page is unmounted,
\* the arrays the updater wrote in place (inPlace) keep what it wrote
Commit(cs, ws, ts, inPlace) ==
    LET r == validateAll(cs, ws, ts)
    IN  IF r.threw
        THEN /\ crashed' = TRUE
             /\ IF inPlace
                THEN clients' = cs /\ workers' = ws /\ tasks' = ts
                ELSE UNCHANGED << clients, workers, tasks >>
             /\ UNCHANGED validationErrors
        ELSE /\ clients' = cs
             /\ workers' = ws
             /\ tasks' = ts
             /\ validationErrors' = r.errors
             /\ UNCHANGED crashed

PageStep ==
    /\ ~crashed
    /\ steps < MaxSteps
    /\ steps' = steps + 1
    /\ UNCHANGED << priorityWeights, normVars, runVars >>

\* the collections of newState after one of them is replaced by data
Replaced(entityType, data) ==
    [ clients |-> IF entityType = "client" THEN data ELSE clients,
      workers |-> IF entityType = "worker" THEN data ELSE workers,
      tasks   |-> IF entityType = "task" THEN data ELSE tasks ]

UploadChoices ==
    { [entity |-> "client", data |-> d] : d \in SeqsUpTo(PageClientRows, MaxUploadRows) }
    \cup { [entity |-> "worker", data |-> d] : d \in SeqsUpTo(PageWorkerRows, MaxUploadRows) }
    \cup { [entity |-> "task", data |-> d] : d \in SeqsUpTo(PageTaskRows, MaxUploadRows) }

handleDataUploaded(data, entityType) ==
    LET n == Replaced(entityType, data)
    IN  /\ PageStep
        /\ Received("upload", clients, workers, tasks)    \* newState.x = data
        /\ Commit(n.clients, n.workers, n.tasks, FALSE)

HandleDataUploaded ==
    /\ \E u \in UploadChoices : handleDataUploaded(u.data, u.entity)
    /\ UNCHANGED uiVars

handleCellEdit(entityType, rowIndex, field, value) ==
    LET coll == CASE entityType = "client" -> clients
                  [] entityType = "worker" -> workers
                  [] OTHER -> tasks
        edited == [coll EXCEPT ![rowIndex] = [coll[rowIndex] EXCEPT ![field] = value]]
        n == Replaced(entityType, edited)
    IN  /\ PageStep
        \* newState.x is the array of prev: newState.x[rowIndex] = ... writes it
        /\ Received("edit", n.clients, n.workers, n.tasks)
        /\ Commit(n.clients, n.workers, n.tasks, TRUE)

HandleCellEdit ==
    /\ \E e \in PageEdits :
        LET coll == CASE e.entity = "client" -> clients
                      [] e.entity = "worker" -> workers
                      [] OTHER -> tasks
        IN  \E rowIndex \in 1..Len(coll) :
                /\ coll[1][e.field] # Undef     \* columns are the keys of the first row
                /\ handleCellEdit(e.entity, rowIndex, e.field, ProcessEditValue(e.text))
    /\ UNCHANGED uiVars

handleDataChange(entityType, data) ==
    LET n == Replaced(entityType, data)
    IN  /\ PageStep
        /\ Received("change", clients, workers, tasks)    \* newState.x = data
        /\ Commit(n.clients, n.workers, n.tasks, FALSE)

\* the calls of onDataChange: ValidationPanel.applyCorrection hands over the
\* stored clients with PriorityLevel 4 in the rows that carry one ClientID
DataChangeChoices ==
    { [entity |-> "client",
       data |-> [i \in 1..Len(clients) |->
                    IF clients[i].ClientID = id
                    THEN [clients[i] EXCEPT !.PriorityLevel = Num(4)]
                    ELSE clients[i]]] :
          id \in { clients[i].ClientID : i \in 1..Len(clients) } }

HandleDataChange ==
    /\ \E u \in DataChangeChoices : handleDataChange(u.entity, u.data)
    /\ UNCHANGED uiVars

loadSampleData ==
    LET sampleData == generateSampleData
    IN  /\ PageStep
        /\ Received("sample", clients, workers, tasks)    \* newState is a new object
        /\ Commit(sampleData.clients, sampleData.workers, sampleData.tasks, FALSE)
        /\ UNCHANGED uiVars

NextPage == HandleDataUploaded \/ HandleCellEdit \/ HandleDataChange \/ loadSampleData

SpecPage == InitPage /\ [][NextPage]_vars

-----------------------------------------------------------------------------
(* PriorityPanel: the three writers of dataState.priorityWeights.          *)

OnGrid(w) == \A k \in WeightFieldSet : w[k].d <= MaxDenominator

WeightsStep == UNCHANGED << pageVars, normVars, runVars, uiVars >>

handleWeightChange(field, value) ==
    LET newWeights == NormalizeWeights(priorityWeights, field, value)
    IN  /\ OnGrid(newWeights)
        /\ priorityWeights' = newWeights
        /\ WeightsStep

HandleWeightChange ==
    \E field \in WeightFieldSet, value \in SliderValues : handleWeightChange(field, value)

applyPreset(profileKey) ==
    /\ priorityWeights' = presetProfiles[profileKey]
    /\ WeightsStep

ApplyPreset == \E profileKey \in DOMAIN presetProfiles : applyPreset(profileKey)

resetToDefaults ==
    /\ priorityWeights' = Percent(30, 25, 20, 15, 5, 5)
    /\ WeightsStep

NextWeights == HandleWeightChange \/ ApplyPreset \/ resetToDefaults

SpecWeights == InitPage /\ [][NextWeights]_vars

-----------------------------------------------------------------------------
(* One call of the normalizer on an arbitrary record of weights.           *)

StartWeights ==
    [WeightFieldSet -> { Rat(k, 4) : k \in 0..MaxStartQuarters }]

InitNormalize ==
    /\ normIn \in StartWeights
    /\ normField = "none"
    /\ normValue = 0
    /\ normOut = normIn
    /\ clients = << >> /\ workers = << >> /\ tasks = << >>
    /\ validationErrors = << >>
    /\ priorityWeights = InitialWeights
    /\ crashed = FALSE
    /\ steps = 0
    /\ prev = NoPrev
    /\ vpc = "idle"
    /\ vresult = NoRun
    /\ naturalLanguageRule = << >>
    /\ InitUi

RunNormalize ==
    /\ normField = "none"
    /\ \E field \in WeightFieldSet, value \in SliderValues :
          /\ normField' = field
          /\ normValue' = value
          /\ normOut' = NormalizeWeights(normIn, field, value)
    /\ UNCHANGED << normIn, priorityWeights, pageVars, runVars, uiVars >>

NextNormalize == RunNormalize

SpecNormalize == InitNormalize /\ [][NextNormalize]_vars

-----------------------------------------------------------------------------
(* Claims about the priority weights.                                      *)

RatMul(a, b) == Rat(a.n * b.n, a.d * b.d)

\* C1: in every state reachable by slider changes, presets and resets the
\* six priority weights sum to 1.
C1_WeightsSumToOne == WeightTotal(priorityWeights) = RatOne

\* the input of a finished normalizer run with only the changed field set
NormSet == [normIn EXCEPT ![normField] = Rat(normValue, 100)]

-----------------------------------------------------------------------------
(* Claims about the page state.                                            *)

\* C3: after any sequence of uploads, cell edits, collection replacements
\* and sample loads, the stored validationErrors are the list validateAll
\* returns on the stored clients, workers and tasks.
C3_ValidationIsFresh == validateAll(clients, workers, tasks) = Ok(validationErrors)

\* C3 while no updater has thrown: the stored validationErrors are the list
\* validateAll returns on the stored collections.
C3_FreshWhileMounted == ~crashed => C3_ValidationIsFresh

\* a cell edit has written its row into the stored array, validateAll has
\* thrown on it, and the stored errors are those of before the edit
C3_StaleAfterThrow ==
    /\ crashed
    /\ validateAll(clients, workers, tasks) = Threw
    /\ \E i \in 1..Len(workers) : workers[i].Skills = Num(7)

-----------------------------------------------------------------------------
(* One call of validateAll on collections drawn from a set of rows.        *)

\* the sequences over S of length at most n, the empty one included
SeqsFromZero(S, n) == { << >> } \cup SeqsUpTo(S, n)

\* the initial state of a validator run on the collections cs, ws, ts
InitRun(cs, ws, ts) ==
    /\ clients = cs
    /\ workers = ws
    /\ tasks = ts
    /\ validationErrors = << >>
    /\ priorityWeights = InitialWeights
    /\ crashed = FALSE
    /\ steps = 0
    /\ prev = NoPrev
    /\ normIn = InitialWeights
    /\ normField = "none"
    /\ normValue = 0
    /\ normOut = InitialWeights
    /\ vpc = "ready"
    /\ vresult = NoRun
    /\ naturalLanguageRule = << >>
    /\ InitUi

\* const validator = new DataValidator(clients, workers, tasks); validator.validateAll()
RunValidateAll ==
    /\ vpc = "ready"
    /\ vresult' = validateAll(clients, workers, tasks)
    /\ vpc' = "done"
    /\ UNCHANGED << clients, workers, tasks, validationErrors, priorityWeights,
                    crashed, steps, prev, normVars, naturalLanguageRule, uiVars >>

NextRun == RunValidateAll

\* validateAll has returned a list
Returned == vpc = "done" /\ ~vresult.threw

\* the errors of the returned list whose id starts with one of the prefixes
ErrorsOf(prefixes) == SelectSeq(vresult.errors, LAMBDA e : e.id[1] \in prefixes)

\* the number of indices of seq that satisfy P
Count(seq, P(_)) == Cardinality({ i \in 1..Len(seq) : P(seq[i]) })

\* rows that fail one or more checks each, and a worker row without Skills
MixedClientRows ==
    { Client(Str(<< "C1" >>), NoText, Num(0), Str(<< "T9" >>), Str(<< "g" >>),
             Str(<< "{" >>)),
      Client(Str(<< "C1" >>), Str(<< "Bolt" >>), Num(7), Str(<< "T1", ",", " ", "T8" >>),
             Str(<< "g" >>), Str(<< "{", "}" >>)),
      Client(Str(<< "C2" >>), NoText, Num(9), Str(<< "T7" >>), Str(<< "g" >>), Undef) }

MixedWorkerRows ==
    { Worker(Str(<< "W1" >>), Str(<< "Ann" >>), Str(<< "a" >>),
             Str(<< "1", ",", "2" >>), Num(3), Str(<< "g" >>), Num(1)),
      Worker(Str(<< "W1" >>), Str(<< "Bob" >>), Str(<< "b" >>),
             Str(<< "[", "1", "]" >>), Num(3), Str(<< "g" >>), Num(1)),
      Worker(Str(<< "W2" >>), Str(<< "Cat" >>), NoText,
             Str(<< "[", "\"", "x", "\"", "]" >>), Num(2), Str(<< "g" >>), Num(1)),
      Worker(Str(<< "W3" >>), Str(<< "Dan" >>), Undef,
             Undef, Num(1), Str(<< "g" >>), Num(1)) }

MixedTaskRows ==
    { Task(Str(<< "T1" >>), Str(<< "Build" >>), Str(<< "k" >>), Num(0),
           Str(<< "z" >>), Str(<< "[", "1", "]" >>), Num(2)),
      Task(Str(<< "T1" >>), Str(<< "Ship" >>), Str(<< "k" >>), Num(1),
           Str(<< "a", ",", " ", "q" >>), Str(<< "[", "1", "]" >>), Num(1)),
      Task(Str(<< "T2" >>), Str(<< "Test" >>), Str(<< "k" >>), Num(-1),
           NoText, Str(<< "[", "1", "]" >>), Num(3)) }

InitMixed ==
    \E cs \in SeqsFromZero(MixedClientRows, MaxMixedRows),
       ws \in SeqsFromZero(MixedWorkerRows, MaxMixedRows),
       ts \in SeqsFromZero(MixedTaskRows, MaxMixedRows) : InitRun(cs, ws, ts)

SpecMixed == InitMixed /\ [][NextRun]_vars

-----------------------------------------------------------------------------
(* Claims about the list validateAll returns.                              *)

\* the id prefixes of the checks that emit errors, in pipeline order
CheckOrder ==
    << {"missing-"}, {"duplicate-"}, {"malformed-slots-", "invalid-slots-"},
       {"priority-range-", "duration-range-"}, {"broken-json-"}, {"unknown-task-"},
       {"overloaded-"}, {"skill-coverage-"}, {"max-concurrent-"} >>

RankOf(e) == CHOOSE k \in 1..Len(CheckOrder) : e.id[1] \in CheckOrder[k]

\* the order in which one check walks the collections
EntityRank(entity) ==
    CASE entity = "client" -> 1 [] entity = "worker" -> 2 [] OTHER -> 3

RowsOf(entity) ==
    CASE entity = "client" -> clients [] entity = "worker" -> workers [] OTHER -> tasks

KeyOf(entity) ==
    CASE entity = "client" -> "ClientID" [] entity = "worker" -> "WorkerID" [] OTHER -> "TaskID"

RECURSIVE FollowsRows(_, _, _, _, _)
\* the errors sub[i..] can be assigned to rows p, p+1, ... in non-decreasing
\* row order, each error to a row that carries its entityId
FollowsRows(sub, i, rows, p, key) ==
    IF i > Len(sub) THEN TRUE
    ELSE LET cand == { q \in p..Len(rows) : rows[q][key] = sub[i].entityId }
         IN  /\ cand # {}
             /\ FollowsRows(sub, i + 1, rows,
                            CHOOSE q \in cand : \A r \in cand : q <= r, key)

\* C5: the returned errors are grouped by check in pipeline order; within a
\* check the collections come in the order the check walks them, and the
\* errors of one collection follow the order of its rows.
C5_ErrorsInCheckOrder ==
    Returned =>
        LET errs == vresult.errors
        IN  /\ \A i, j \in 1..Len(errs) :
                  i < j => /\ RankOf(errs[i]) <= RankOf(errs[j])
                           /\ RankOf(errs[i]) = RankOf(errs[j]) =>
                                  EntityRank(errs[i].entity) <= EntityRank(errs[j].entity)
            /\ \A k \in 1..Len(CheckOrder), entity \in {"client", "worker", "task"} :
                  FollowsRows(
                      SelectSeq(errs, LAMBDA e : RankOf(e) = k /\ e.entity = entity),
                      1, RowsOf(entity), 1, KeyOf(entity))

\* C5 witness: a returned list with errors of all nine checks, and two rows
\* with different IDs that both fail one check
C5_Witness ==
    /\ Returned
    /\ { RankOf(vresult.errors[i]) : i \in 1..Len(vresult.errors) } = 1..Len(CheckOrder)
    /\ \E i, j \in 1..Len(vresult.errors) :
          /\ i < j
          /\ RankOf(vresult.errors[i]) = RankOf(vresult.errors[j])
          /\ vresult.errors[i].entity = vresult.errors[j].entity
          /\ vresult.errors[i].entityId # vresult.errors[j].entityId

\* C6: validateAll never throws, whatever the rows hold.
C6_NeverThrows == vpc = "done" => ~vresult.threw

-----------------------------------------------------------------------------
(* Validator runs on rows that repeat IDs (C7).                            *)

DupName == { Str(<< "n1" >>), Str(<< "n2" >>) }
IdPool == { Str(<< "X" >>), Str(<< "Y" >>) }

DupClientRows ==
    { Client(Str(<< "X" >>), n, Num(3), NoText, Str(<< "g" >>), NoText) : n \in DupName }
    \cup { Client(Str(<< "Y" >>), Str(<< "n1" >>), Num(3), NoText, Str(<< "g" >>), NoText) }

DupWorkerRows ==
    { Worker(Str(<< "X" >>), n, Str(<< "a" >>), Str(<< "[", "1", "]" >>), Num(1),
             Str(<< "g" >>), Num(1)) : n \in DupName }
    \cup { Worker(Str(<< "Y" >>), Str(<< "n1" >>), Str(<< "a" >>), Str(<< "[", "1", "]" >>),
                  Num(1), Str(<< "g" >>), Num(1)) }

DupTaskRows ==
    { Task(Str(<< "X" >>), n, Str(<< "k" >>), Num(1), Str(<< "a" >>),
           Str(<< "[", "1", "]" >>), Num(1)) : n \in DupName }
    \cup { Task(Str(<< "Y" >>), Str(<< "n1" >>), Str(<< "k" >>), Num(1), Str(<< "a" >>),
                Str(<< "[", "1", "]" >>), Num(1)) }

\* one collection of up to MaxRows rows, the other two of at most one row
InitDup ==
    \/ \E cs \in SeqsFromZero(DupClientRows, MaxRows), ws \in SeqsFromZero(DupWorkerRows, 1),
          ts \in SeqsFromZero(DupTaskRows, 1) : InitRun(cs, ws, ts)
    \/ \E cs \in SeqsFromZero(DupClientRows, 1), ws \in SeqsFromZero(DupWorkerRows, MaxRows),
          ts \in SeqsFromZero(DupTaskRows, 1) : InitRun(cs, ws, ts)
    \/ \E cs \in SeqsFromZero(DupClientRows, 1), ws \in SeqsFromZero(DupWorkerRows, 1),
          ts \in SeqsFromZero(DupTaskRows, MaxRows) : InitRun(cs, ws, ts)

SpecDup == InitDup /\ [][NextRun]_vars

Entities == {"client", "worker", "task"}

\* the duplicate errors of one collection, in the order returned
DuplicateErrors(entity) ==
    SelectSeq(ErrorsOf({"duplicate-"}), LAMBDA e : e.entity = entity)

\* the indices of the rows whose ID occurs in an earlier row, ascending
LaterOccurrences(rows, key) ==
    SelectSeq([i \in 1..Len(rows) |-> i],
              LAMBDA i : \E j \in 1..(i - 1) : rows[j][key] = rows[i][key])

\* C7: in each collection an ID that occurs count times gets count - 1
\* duplicate errors (none when it occurs once or not at all): one for each
\* occurrence after the first, in row order, and none for the first.
C7_DuplicatesCountMinusOne ==
    Returned =>
        \A entity \in Entities :
            LET rows == RowsOf(entity)
                key == KeyOf(entity)
                dups == DuplicateErrors(entity)
                later == LaterOccurrences(rows, key)
            IN  /\ \A id \in IdPool :
                      LET count == Count(rows, LAMBDA r : r[key] = id)
                      IN  Count(dups, LAMBDA e : e.entityId = id)
                              = IF count = 0 THEN 0 ELSE count - 1
                /\ Len(dups) = Len(later)
                /\ \A k \in 1..Len(dups) :
                      /\ dups[k].entityId = rows[later[k]][key]
                      /\ dups[k].type = "error"

\* C7 witness: an ID that occurs three times in a collection and has two errors
C7_Witness ==
    /\ Returned
    /\ \E entity \in Entities, id \in IdPool :
          /\ Count(RowsOf(entity), LAMBDA r : r[KeyOf(entity)] = id) = 3
          /\ Count(DuplicateErrors(entity), LAMBDA e : e.entityId = id) = 2

-----------------------------------------------------------------------------
(* Validator runs on clients that request tasks (C8).                      *)

RefClient(id, requested) ==
    Client(Str(<< id >>), Str(<< "n" >>), Num(3), requested, Str(<< "g" >>), NoText)

RefClientRows ==
    { RefClient("C1", Str(<< "T1" >>)),
      RefClient("C1", Str(<< " ", "T2", " ", ",", " ", "T9" >>)),
      RefClient("C2", Str(<< "T9", ",", "T9" >>)),
      RefClient("C2", NoText),
      RefClient("C3", Str(<< "T1", "," >>)),
      RefClient("C3", Undef),
      RefClient("C4", Str(<< " " >>)),
      RefClient("C4", Num(7)) }

RefTask(id) ==
    Task(Str(id), Str(<< "n" >>), Str(<< "k" >>), Num(1), Str(<< "a" >>),
         Str(<< "[", "1", "]" >>), Num(0))

RefTaskLists ==
    { << >>, << RefTask(<< "T1" >>) >>, << RefTask(<< "T1" >>), RefTask(<< "T2" >>) >>,
      << RefTask(<< "T9" >>) >>, << RefTask(<< >>), RefTask(<< "T2" >>) >> }

RefWorker ==
    Worker(Str(<< "W1" >>), Str(<< "n" >>), Str(<< "a" >>), Str(<< "[", "1", "]" >>),
           Num(1), Str(<< "g" >>), Num(1))

InitRefs ==
    \E cs \in SeqsFromZero(RefClientRows, MaxRows), ts \in RefTaskLists :
        InitRun(cs, << RefWorker >>, ts)

SpecRefs == InitRefs /\ [][NextRun]_vars

\* the positions of the commas of s, and the k-th of them
Commas(s) == { i \in 1..Len(s) : s[i] = "," }
NthComma(s, k) ==
    CHOOSE i \in Commas(s) : Cardinality({ j \in Commas(s) : j < i }) = k - 1

\* x without its leading and trailing spaces
Trimmed(x) ==
    LET solid == { i \in 1..Len(x) : x[i] # " " }
    IN  IF solid = {} THEN << >>
        ELSE SubSeq(x, CHOOSE i \in solid : \A j \in solid : i <= j,
                       CHOOSE i \in solid : \A j \in solid : j <= i)

\* the comma-separated entries of s, trimmed, in text order
Entries(s) ==
    LET n == Cardinality(Commas(s))
    IN  [ k \in 1..(n + 1) |->
            Trimmed(SubSeq(s, IF k = 1 THEN 1 ELSE NthComma(s, k - 1) + 1,
                              IF k = n + 1 THEN Len(s) ELSE NthComma(s, k) - 1)) ]

\* the (client, requested ID) pairs the claim wants reported, in row order
ExpectedUnknown ==
    LET known == { tasks[i].TaskID : i \in 1..Len(tasks) }
        PerClient(client) ==
            IF client.RequestedTaskIDs.t = "str" /\ client.RequestedTaskIDs.s # << >>
            THEN LET unknown == SelectSeq(Entries(client.RequestedTaskIDs.s),
                                          LAMBDA t : Str(t) \notin known)
                 IN  [ k \in 1..Len(unknown) |->
                         [client |-> client.ClientID, task |-> unknown[k]] ]
            ELSE << >>
    IN  FlatMap(PerClient, clients, 1)

\* the (client, requested ID) pairs the returned unknown-task errors report
ReportedUnknown ==
    LET errs == ErrorsOf({"unknown-task-"})
    IN  [ k \in 1..Len(errs) |->
            [client |-> errs[k].entityId, task |-> Tail(errs[k].message)] ]

\* C8: the returned list has one unknown-task error for each comma-split,
\* trimmed entry of a client's RequestedTaskIDs that is no TaskID, none for
\* an entry that is one, and none for a client whose RequestedTaskIDs is
\* empty or absent.
C8_UnknownTaskPerEntry ==
    Returned =>
        /\ ReportedUnknown = ExpectedUnknown
        /\ \A k \in 1..Len(vresult.errors) :
              vresult.errors[k].id[1] = "unknown-task-" =>
                  /\ vresult.errors[k].type = "error"
                  /\ vresult.errors[k].field = "RequestedTaskIDs"

\* C8 witness: a client that requests a known and an unknown task (written
\* with spaces around them) gets one error, and an empty request gets none
C8_Witness ==
    /\ Returned
    /\ Len(clients) = 2
    /\ clients[1].RequestedTaskIDs = Str(<< " ", "T2", " ", ",", " ", "T9" >>)
    /\ clients[2].RequestedTaskIDs = NoText
    /\ \E i \in 1..Len(tasks) : tasks[i].TaskID = Str(<< "T2" >>)
    /\ ReportedUnknown = << [client |-> Str(<< "C1" >>), task |-> << "T9" >>] >>

-----------------------------------------------------------------------------
(* Validator runs on workers with slots and loads (C9).                    *)

SlotWorker(id, slots, maxLoad) ==
    Worker(Str(<< id >>), Str(<< "n" >>), Str(<< "a" >>), slots, maxLoad,
           Str(<< "g" >>), Num(1))

SlotWorkerRows ==
    { SlotWorker("W1", Str(<< "[", "1", ",", "2", "]" >>), Num(3)),
      SlotWorker("W1", Str(<< "[", "1", ",", "2", ",", "3", ",", "4", "]" >>), Num(3)),
      SlotWorker("W2", Str(<< "[", "]" >>), Num(0)),
      SlotWorker("W2", Str(<< "[", " ", "7", " ", "]" >>), Num(1)),
      SlotWorker("W3", Str(<< "[", "\"", "x", "\"", "]" >>), Num(2)),
      SlotWorker("W3", Str(<< "1", ",", "2" >>), Num(3)),
      SlotWorker("W4", Str(<< "5" >>), Num(9)),
      SlotWorker("W4", Undef, Num(3)),
      SlotWorker("W5", Str(<< "[", "1", ",", "2", "]" >>), Undef) }

InitSlots ==
    \E ws \in SeqsFromZero(SlotWorkerRows, MaxRows) :
        InitRun(<< RefClient("C1", Str(<< "T1" >>)) >>, ws, << RefTask(<< "T1" >>) >>)

SpecSlots == InitSlots /\ [][NextRun]_vars

\* AvailableSlots parses to an array with fewer elements than the number
\* MaxLoadPerPhase
FewerSlotsThanLoad(worker) ==
    LET parsed == JSONParse(worker.AvailableSlots)
    IN  /\ parsed.ok
        /\ parsed.kind = "arr"
        /\ worker.MaxLoadPerPhase.t = "num"
        /\ parsed.len < worker.MaxLoadPerPhase.n

\* C9: the returned list has one overloaded warning for each worker whose
\* parsed AvailableSlots array has fewer elements than MaxLoadPerPhase, in
\* row order, and none for any other worker.
C9_OverloadedIffFewerSlots ==
    Returned =>
        LET errs == ErrorsOf({"overloaded-"})
            over == SelectSeq(workers, FewerSlotsThanLoad)
        IN  /\ Len(errs) = Len(over)
            /\ \A k \in 1..Len(errs) :
                  /\ errs[k].entityId = over[k].WorkerID
                  /\ errs[k].entity = "worker"
                  /\ errs[k].type = "warning"

\* C9 witness: slots [1,2] under load 3 warn, slots [1,2,3,4] under load 3
\* and slots [] under load 0 do not
C9_Witness ==
    /\ Returned
    /\ workers = << SlotWorker("W1", Str(<< "[", "1", ",", "2", ",", "3", ",", "4", "]" >>), Num(3)),
                    SlotWorker("W1", Str(<< "[", "1", ",", "2", "]" >>), Num(3)),
                    SlotWorker("W2", Str(<< "[", "]" >>), Num(0)) >>
    /\ Len(ErrorsOf({"overloaded-"})) = 1

-----------------------------------------------------------------------------
(* Validator runs on workers with skills and tasks that require them.      *)

SkillWorker(id, skills) ==
    Worker(Str(<< id >>), Str(<< "n" >>), skills, Str(<< "[", "1", "]" >>), Num(1),
           Str(<< "g" >>), Num(1))

SkillWorkerRows ==
    { SkillWorker("W1", Str(<< "a" >>)),
      SkillWorker("W2", Str(<< "b", ",", " ", "c" >>)),
      SkillWorker("W3", Str(<< "c", ",", "a", ",", "b" >>)),
      SkillWorker("W4", NoText) }

SkillTask(id, skills, maxConcurrent) ==
    Task(Str(<< id >>), Str(<< "n" >>), Str(<< "k" >>), Num(1), skills,
         Str(<< "[", "1", "]" >>), maxConcurrent)

SkillTaskRows ==
    { SkillTask("T1", Str(<< "a" >>), Num(1)),
      SkillTask("T1", Str(<< "a", ",", "z" >>), Num(2)),
      SkillTask("T2", Str(<< "z", ",", " ", "z" >>), Num(1)),
      SkillTask("T2", Str(<< "c", " ", ",", "b" >>), Num(2)),
      SkillTask("T3", Str(<< "y", ",", "z" >>), Num(0)),
      SkillTask("T3", NoText, Num(1)) }

InitSkills ==
    \E ws \in SeqsFromZero(SkillWorkerRows, MaxRows - 1),
       ts \in SeqsFromZero(SkillTaskRows, MaxRows - 1) :
        InitRun(<< >>, ws, ts)

SpecSkills == InitSkills /\ [][NextRun]_vars

\* the skills some worker has
CoveredSkills ==
    UNION { Range(Entries(workers[i].Skills.s)) : i \in 1..Len(workers) }

\* the skill a skill-coverage error names
SkillOf(e) == Tail(e.message)

\* C10: the returned list has exactly one skill-coverage error for each pair
\* of a task row and a skill in its RequiredSkills that no worker has (a skill
\* the task lists twice counting once), and none for any other pair.
C10_OnePerTaskSkillPair ==
    Returned =>
        LET errs == ErrorsOf({"skill-coverage-"})
            skills == UNION { Range(Entries(tasks[i].RequiredSkills.s)) : i \in 1..Len(tasks) }
            ids == { tasks[i].TaskID : i \in 1..Len(tasks) }
        IN  /\ \A k \in 1..Len(errs) : errs[k].entityId \in ids /\ SkillOf(errs[k]) \in skills
            /\ \A id \in ids, skill \in skills :
                  Count(errs, LAMBDA e : e.entityId = id /\ SkillOf(e) = skill)
                      = Count(tasks, LAMBDA t :
                            /\ t.TaskID = id
                            /\ skill \in Range(Entries(t.RequiredSkills.s))
                            /\ skill \notin CoveredSkills)

-----------------------------------------------------------------------------
(* Claims about the max-concurrency check.                                 *)

\* the skills a comma-separated text lists: its trimmed, non-empty entries
SkillSet(v) == Range(Entries(v.s)) \ { << >> }

\* the workers whose skill set is a superset of the task's required skills
QualifiedFor(task) ==
    { i \in 1..Len(workers) : SkillSet(task.RequiredSkills) \subseteq SkillSet(workers[i].Skills) }

ExceedsQualified(task) ==
    task.MaxConcurrent.t = "num" /\ task.MaxConcurrent.n > Cardinality(QualifiedFor(task))

\* C11: the returned list has a max-concurrent warning for a task exactly
\* when its MaxConcurrent is greater than the number of workers whose skill
\* set is a superset of the task's set of required skills, in row order.
C11_WarningIffTooFewQualified ==
    Returned =>
        LET errs == ErrorsOf({"max-concurrent-"})
            over == SelectSeq(tasks, ExceedsQualified)
        IN  /\ Len(errs) = Len(over)
            /\ \A k \in 1..Len(errs) :
                  /\ errs[k].entityId = over[k].TaskID
                  /\ errs[k].type = "warning"

\* the entries of a text as the check reads them, the empty entry of an
\* empty text or of a trailing comma included
ListedSkills(v) == Range(Entries(v.s))

ExceedsListed(task) ==
    /\ task.MaxConcurrent.t = "num"
    /\ task.MaxConcurrent.n >
          Cardinality({ i \in 1..Len(workers) :
                          ListedSkills(task.RequiredSkills) \subseteq ListedSkills(workers[i].Skills) })

\* C11 with the empty entry counted as a skill: the warnings are those of the
\* tasks whose MaxConcurrent exceeds the number of workers that list every
\* entry of the task, whatever the order of the entries.
C11_WarningIffTooFewListed ==
    Returned =>
        LET errs == ErrorsOf({"max-concurrent-"})
            over == SelectSeq(tasks, ExceedsListed)
        IN  /\ Len(errs) = Len(over)
            /\ \A k \in 1..Len(errs) :
                  /\ errs[k].entityId = over[k].TaskID
                  /\ errs[k].type = "warning"

-----------------------------------------------------------------------------
(* Validator runs on clients whose required fields vary (C12).             *)

FieldClientRows ==
    { Client(id, name, level, NoText, Str(<< "g" >>), NoText) :
        id \in { Str(<< "C1" >>), Undef, Num(0) },
        name \in { Str(<< "n" >>), NoText },
        level \in { Num(3), Num(0), Undef, NoText } }

InitFields ==
    \E cs \in SeqsFromZero(FieldClientRows, MaxRows - 1) : InitRun(cs, << >>, << >>)

SpecFields == InitFields /\ [][NextRun]_vars

\* the (client, field) pairs of the returned missing-field errors, in order
ReportedMissing ==
    LET errs == ErrorsOf({"missing-"})
    IN  [ k \in 1..Len(errs) |-> [client |-> errs[k].entityId, field |-> errs[k].field] ]

\* the (client, field) pairs of the rows and required fields that satisfy
\* Missing, in row order and field order
MissingWhere(Missing(_)) ==
    LET PerClient(client) ==
            LET fields == SelectSeq(requiredClientFields, LAMBDA f : Missing(client[f]))
            IN  [ k \in 1..Len(fields) |-> [client |-> client.ClientID, field |-> fields[k]] ]
    IN  FlatMap(PerClient, clients, 1)

\* C12: the returned list has one missing-field error for each client and
\* each of ClientID, ClientName, PriorityLevel that is absent or the empty
\* text, and none for a field that holds any other value.
C12_MissingIffAbsentOrEmpty ==
    Returned => ReportedMissing = MissingWhere(LAMBDA v : v = Undef \/ v = NoText)

\* C12 with the number 0 counted as missing: one missing-field error for each
\* required field that is absent, the empty text or the number 0.
C12_MissingIffFalsy ==
    Returned => ReportedMissing = MissingWhere(LAMBDA v : v = Undef \/ v = NoText \/ v = Num(0))

-----------------------------------------------------------------------------
(* Validator runs on clients and tasks whose ranged fields vary (C13).     *)

RangeClientRows ==
    { Client(Str(<< id >>), Str(<< "n" >>), level, NoText, Str(<< "g" >>), NoText) :
        id \in { "C1", "C2" },
        level \in { Num(0), Num(1), Num(5), Num(6), Num(-1), Str(<< "3" >>),
                    Str(<< "high" >>), NoText, Undef } }

RangeTaskRows ==
    { Task(Str(<< id >>), Str(<< "n" >>), Str(<< "k" >>), duration, Str(<< "a" >>),
           Str(<< "[", "1", "]" >>), Num(0)) :
        id \in { "T1", "T2" },
        duration \in { Num(0), Num(1), Num(7), Num(-1), Str(<< "0" >>),
                       Str(<< "long" >>), Undef } }

\* one collection of up to MaxRows - 1 rows, the other of at most one row
InitRange ==
    \/ \E cs \in SeqsFromZero(RangeClientRows, MaxRows - 1),
          ts \in SeqsFromZero(RangeTaskRows, 1) : InitRun(cs, << >>, ts)
    \/ \E cs \in SeqsFromZero(RangeClientRows, 1),
          ts \in SeqsFromZero(RangeTaskRows, MaxRows - 1) : InitRun(cs, << >>, ts)

SpecRange == InitRange /\ [][NextRun]_vars

\* v is a number, or the text of one, between lo and hi
NumberWithin(v, lo, hi) ==
    LET x == ToNumber(v)
    IN  v.t \in {"num", "str"} /\ v # NoText /\ ~x.nan /\ lo <= x.n /\ x.n <= hi

\* the IDs of the returned errors whose id starts with prefix, in order
ReportedIds(prefix) ==
    LET errs == ErrorsOf({prefix})
    IN  [ k \in 1..Len(errs) |-> errs[k].entityId ]

\* the IDs of the rows that satisfy P, in row order
IdsWhere(rows, key, P(_)) ==
    LET sel == SelectSeq(rows, P)
    IN  [ k \in 1..Len(sel) |-> sel[k][key] ]

\* C13: the returned list has a priority-range error exactly for the clients
\* whose PriorityLevel is not a value in 1..5 and a duration-range error
\* exactly for the tasks whose Duration is not a value of at least 1.
C13_RangeErrorIffOutside ==
    Returned =>
        /\ ReportedIds("priority-range-")
              = IdsWhere(clients, "ClientID", LAMBDA c : ~NumberWithin(c.PriorityLevel, 1, 5))
        /\ ReportedIds("duration-range-")
              = IdsWhere(tasks, "TaskID", LAMBDA t : ~NumberWithin(t.Duration, 1, 15))

\* C13 for the values that convert to a number: a priority-range error
\* exactly when the number is below 1 or above 5, a duration-range error
\* exactly when it is below 1; a value that converts to no number (absent, a
\* text that is no numeral) gets neither.
C13_RangeErrorIffNumberOutside ==
    Returned =>
        /\ ReportedIds("priority-range-")
              = IdsWhere(clients, "ClientID",
                         LAMBDA c : /\ ~ToNumber(c.PriorityLevel).nan
                                    /\ \/ ToNumber(c.PriorityLevel).n < 1
                                       \/ ToNumber(c.PriorityLevel).n > 5)
        /\ ReportedIds("duration-range-")
              = IdsWhere(tasks, "TaskID",
                         LAMBDA t : ~ToNumber(t.Duration).nan /\ ToNumber(t.Duration).n < 1)

-----------------------------------------------------------------------------
(* Validator runs on workers whose AvailableSlots vary (C14).              *)

SlotTexts ==
    { Str(<< "[", "1", ",", "2", "]" >>), Str(<< "[", "]" >>),
      Str(<< " ", "[", " ", "7", " ", ",", "-", "1", "]", " " >>),
      Str(<< "[", "\"", "x", "\"", "]" >>), Str(<< "[", "1", ",", "null", "]" >>),
      Str(<< "[", "[", "1", "]", "]" >>), Str(<< "[", "1", ",", "]" >>),
      Str(<< "1", ",", "2" >>), Str(<< "5" >>), Str(<< "{", "}" >>), NoText,
      Undef, Num(3), Arr(<< "1", ",", "2" >>) }

SlotTextRows == { SlotWorker(id, slots, Num(0)) : id \in { "W1", "W2" }, slots \in SlotTexts }

InitSlotTexts ==
    \E ws \in SeqsFromZero(SlotTextRows, MaxRows - 1) : InitRun(<< >>, ws, << >>)

SpecSlotTexts == InitSlotTexts /\ [][NextRun]_vars

\* e is the text of one number
IsNumberText(e) ==
    \/ Len(e) = 1 /\ IsNumeral(e[1])
    \/ Len(e) = 2 /\ e[1] = "-" /\ IsNumeral(e[2])

\* s is the JSON text of an array whose elements are all numbers: brackets
\* around nothing, or around numbers separated by commas
IsNumberArrayText(s) ==
    LET t == Trimmed(s)
    IN  /\ Len(t) >= 2
        /\ t[1] = "["
        /\ t[Len(t)] = "]"
        /\ LET inner == SubSeq(t, 2, Len(t) - 1)
           IN  \/ Trimmed(inner) = << >>
               \/ \A e \in Range(Entries(inner)) : IsNumberText(e)

\* C14: the returned list has exactly one AvailableSlots error (malformed or
\* invalid) for each worker whose AvailableSlots is not the JSON text of an
\* array of numbers, in row order, and none for a worker whose is.
C14_SlotsErrorIffNotNumberArray ==
    Returned =>
        LET errs == ErrorsOf({"malformed-slots-", "invalid-slots-"})
            bad == SelectSeq(workers, LAMBDA w : ~IsNumberArrayText(ToStr(w.AvailableSlots)))
        IN  /\ Len(errs) = Len(bad)
            /\ \A k \in 1..Len(errs) :
                  /\ errs[k].entityId = bad[k].WorkerID
                  /\ errs[k].type = "error"
                  /\ errs[k].field = "AvailableSlots"

\* C14 witness: an array with a text element and a text that is no JSON get
\* one error each, in row order
C14_Witness ==
    /\ Returned
    /\ Len(workers) = 2
    /\ workers[1] = SlotWorker("W1", Str(<< "[", "\"", "x", "\"", "]" >>), Num(0))
    /\ workers[2] = SlotWorker("W2", Str(<< "1", ",", "2" >>), Num(0))
    /\ Len(vresult.errors) = 2
    /\ vresult.errors[1].id = << "malformed-slots-", "W1" >>
    /\ vresult.errors[2].id = << "invalid-slots-", "W2" >>

-----------------------------------------------------------------------------
(* Claims about the state object an edit receives.                         *)

\* C15: after handleCellEdit the state object the updater received still
\* holds the collections it held before the edit: same rows, same values.
C15_EditLeavesPrevUnchanged == prev.op = "edit" => prev.held = prev.was

-----------------------------------------------------------------------------
(* AIEngine.generateRuleRecommendations.  A confidence is kept in          *)
(* hundredths: 75 for 0.75.  The token | is the separator of a skill key.  *)

\* the skill texts of the rows explored, in the order Array.prototype.sort
\* gives them (ascending by code unit)
SkillAlphabet ==
    << << >>, << "a" >>, << "a", "|", "b" >>, << "b" >>, << "c" >>, << "z" >> >>

SkillRank(skill) == CHOOSE k \in 1..Len(SkillAlphabet) : SkillAlphabet[k] = skill

RECURSIVE InsertSkill(_, _)
\* skill put into the ascending list, after the entries that are not greater
InsertSkill(list, skill) ==
    IF list = << >> THEN << skill >>
    ELSE IF SkillRank(Head(list)) <= SkillRank(skill)
         THEN << Head(list) >> \o InsertSkill(Tail(list), skill)
         ELSE << skill >> \o list

RECURSIVE SortSkills(_)
\* list.sort()
SortSkills(list) ==
    IF list = << >> THEN << >>
    ELSE InsertSkill(SortSkills(SubSeq(list, 1, Len(list) - 1)), list[Len(list)])

RECURSIVE Join(_, _)
\* parts.join(sep), the parts being texts
Join(parts, sep) ==
    IF parts = << >> THEN << >>
    ELSE IF Len(parts) = 1 THEN parts[1]
    ELSE parts[1] \o sep \o Join(Tail(parts), sep)

RECURSIVE SplitOn(_, _, _, _)
\* text.split(sep) from index i on, sep a token
SplitOn(s, sep, i, cur) ==
    IF i > Len(s) THEN << cur >>
    ELSE IF s[i] = sep THEN << cur >> \o SplitOn(s, sep, i + 1, << >>)
    ELSE SplitOn(s, sep, i + 1, Append(cur, s[i]))

\* task.RequiredSkills.split(',').map(s => s.trim()).sort().join('|')
SkillKeyOf(task) == Join(SortSkills(SplitTrim(task.RequiredSkills.s)), << "|" >>)

RECURSIVE FirstOccurrences(_, _)
\* the keys of a Map in insertion order: the distinct entries of keys[1..n]
FirstOccurrences(keys, n) ==
    IF n = 0 THEN << >>
    ELSE LET before == FirstOccurrences(keys, n - 1)
         IN  IF \E j \in 1..(n - 1) : keys[j] = keys[n] THEN before
             ELSE Append(before, keys[n])

\* the second argument, whatever the first
Min_Uncapped(a, b) == b

Min(a, b) == IF a <= b THEN a ELSE b

\* the groups of two or more tasks with one skill key, in Map order
analyzeTaskPatterns(ts) ==
    LET keys == [ i \in 1..Len(ts) |-> SkillKeyOf(ts[i]) ]
        skillKeys == FirstOccurrences(keys, Len(keys))
        shared == SelectSeq(skillKeys,
                            LAMBDA k : Cardinality({ i \in 1..Len(ts) : keys[i] = k }) > 1)
    IN  [ g \in 1..Len(shared) |->
            LET rows == SelectSeq([ i \in 1..Len(ts) |-> i ], LAMBDA i : keys[i] = shared[g])
            IN  [ tasks |-> [ k \in 1..Len(rows) |-> ts[rows[k]].TaskID ],
                  commonSkills |-> SplitOn(shared[g], "|", 1, << >>),
                  confidence |-> Min(90, 50 + Len(rows) * 10) ] ]

\* the sum of a list of numbers: capacities.reduce((a, b) => a + b, 0)
RECURSIVE SumOf(_)
SumOf(list) == IF list = << >> THEN 0 ELSE Head(list) + SumOf(Tail(list))

\* Math.max(...list) of a non-empty list
MaxOf(list) == CHOOSE m \in { list[i] : i \in 1..Len(list) } :
                   \A i \in 1..Len(list) : list[i] <= m

\* the analysis with the test maxCapacity >= avgCapacity
analyzeWorkerOverload_AtLeastMean(ws) ==
    LET names == [ i \in 1..Len(ws) |-> ws[i].WorkerGroup ]
        groups == FirstOccurrences(names, Len(names))
        CapacitiesOf(group) ==
            LET rows == SelectSeq([ i \in 1..Len(ws) |-> i ], LAMBDA i : names[i] = group)
            IN  [ k \in 1..Len(rows) |-> ws[rows[k]].MaxLoadPerPhase.n ]
        over == SelectSeq(groups,
                          LAMBDA group : MaxOf(CapacitiesOf(group)) * Len(CapacitiesOf(group))
                                           >= SumOf(CapacitiesOf(group)))
    IN  [ g \in 1..Len(over) |->
            [ workerGroup |-> over[g],
              suggestedLimit |-> (6 * SumOf(CapacitiesOf(over[g])))
                                   \div (5 * Len(CapacitiesOf(over[g]))),
              confidence |-> 75 ] ]

\* the worker groups whose largest MaxLoadPerPhase exceeds 1.5 times the
\* group's average, in Map order; the arithmetic is exact
analyzeWorkerOverload(ws) ==
    LET names == [ i \in 1..Len(ws) |-> ws[i].WorkerGroup ]
        groups == FirstOccurrences(names, Len(names))
        CapacitiesOf(group) ==
            LET rows == SelectSeq([ i \in 1..Len(ws) |-> i ], LAMBDA i : names[i] = group)
            IN  [ k \in 1..Len(rows) |-> ws[rows[k]].MaxLoadPerPhase.n ]
        over == SelectSeq(groups,
                          LAMBDA group : 2 * MaxOf(CapacitiesOf(group)) * Len(CapacitiesOf(group))
                                           > 3 * SumOf(CapacitiesOf(group)))
    IN  [ g \in 1..Len(over) |->
            [ workerGroup |-> over[g],
              suggestedLimit |-> (6 * SumOf(CapacitiesOf(over[g])))
                                   \div (5 * Len(CapacitiesOf(over[g]))),
              confidence |-> 75 ] ]

RECURSIVE SkillEntries(_, _)
\* the trimmed entries of the field key of every row, one after the other
SkillEntries(rows, key) ==
    IF rows = << >> THEN << >>
    ELSE SplitTrim(Head(rows)[key].s) \o SkillEntries(Tail(rows), key)

\* the number of entries of list equal to x: the count a Map keeps for x
Occurrences(list, x) == Cardinality({ i \in 1..Len(list) : list[i] = x })

\* the skills whose supply is under half of their demand, in Map order
analyzeSkillGaps(ws, ts) ==
    LET demanded == SkillEntries(ts, "RequiredSkills")
        supplied == SkillEntries(ws, "Skills")
        skills == FirstOccurrences(demanded, Len(demanded))
        gaps == SelectSeq(skills,
                          LAMBDA skill : 2 * Occurrences(supplied, skill)
                                           < Occurrences(demanded, skill))
    IN  [ g \in 1..Len(gaps) |->
            [ skill |-> gaps[g],
              taskCount |-> Occurrences(demanded, gaps[g]),
              workerCount |-> Occurrences(supplied, gaps[g]),
              confidence |-> Min(90, 50 + (Occurrences(demanded, gaps[g])
                                             - Occurrences(supplied, gaps[g])) * 10) ] ]

\* the text of a number
NumText(n) == ToStr(Num(n))

\* Date.now() at the push of the i-th recommendation: the clock moves on at
\* most once during a call, after tick pushes
DateNow(i, tick) == IF i <= tick THEN 0 ELSE 1

coRunRecommendation(group, now) ==
    [ id |-> << "corun-rec-", now >>,
      type |-> "coRun",
      description |-> << "Tasks " >>
                        \o Join([ k \in 1..Len(group.tasks) |-> ToStr(group.tasks[k]) ],
                                << ",", " " >>)
                        \o << " often have similar requirements" >>,
      confidence |-> group.confidence,
      parameters |-> [ tasks |-> group.tasks ],
      reasoning |-> << "These tasks share " >> \o NumText(Len(group.commonSkills))
                      \o << " common skills and have similar durations" >> ]

\* the recommendation with a cap one above the suggested limit
loadLimitRecommendation_PlusOne(group, now) ==
    [ id |-> << "loadlimit-rec-", now >>,
      type |-> "loadLimit",
      description |-> << "Limit " >> \o ToStr(group.workerGroup) \o << " to " >>
                        \o NumText(group.suggestedLimit) \o << " tasks per phase" >>,
      confidence |-> group.confidence,
      parameters |-> [ workerGroup |-> group.workerGroup,
                       maxSlotsPerPhase |-> group.suggestedLimit + 1 ],
      reasoning |-> << "Workers in " >> \o ToStr(group.workerGroup)
                      \o << " are currently overloaded based on capacity analysis" >> ]

loadLimitRecommendation(group, now) ==
    [ id |-> << "loadlimit-rec-", now >>,
      type |-> "loadLimit",
      description |-> << "Limit " >> \o ToStr(group.workerGroup) \o << " to " >>
                        \o NumText(group.suggestedLimit) \o << " tasks per phase" >>,
      confidence |-> group.confidence,
      parameters |-> [ workerGroup |-> group.workerGroup,
                       maxSlotsPerPhase |-> group.suggestedLimit ],
      reasoning |-> << "Workers in " >> \o ToStr(group.workerGroup)
                      \o << " are currently overloaded based on capacity analysis" >> ]

skillRecommendation(gap, now) ==
    [ id |-> << "skill-rec-", now >>,
      type |-> "patternMatch",
      description |-> << "Consider adding workers with " >> \o gap.skill \o << " skill" >>,
      confidence |-> gap.confidence,
      parameters |-> [ skill |-> gap.skill ],
      reasoning |-> NumText(gap.taskCount) \o << " tasks require " >> \o gap.skill
                      \o << " but only " >> \o NumText(gap.workerCount)
                      \o << " workers have this skill" >> ]

\* the recommendations in the order of their push
PushedRecommendations(ws, ts, tick) ==
    LET taskGroups == analyzeTaskPatterns(ts)
        overloadedGroups == analyzeWorkerOverload(ws)
        skillGaps == analyzeSkillGaps(ws, ts)
        a == Len(taskGroups)
        b == Len(overloadedGroups)
    IN  [ i \in 1..a |-> coRunRecommendation(taskGroups[i], DateNow(i, tick)) ]
        \o [ i \in 1..b |->
               loadLimitRecommendation(overloadedGroups[i], DateNow(a + i, tick)) ]
        \o [ i \in 1..Len(skillGaps) |->
               skillRecommendation(skillGaps[i], DateNow(a + b + i, tick)) ]

RECURSIVE InsertByConfidence(_, _)
\* rec put after the entries whose confidence is not lower
InsertByConfidence(list, rec) ==
    IF list = << >> THEN << rec >>
    ELSE IF Head(list).confidence >= rec.confidence
         THEN << Head(list) >> \o InsertByConfidence(Tail(list), rec)
         ELSE << rec >> \o list

\* the list left in the order of the pushes
SortByConfidence_Unsorted(list) == list

RECURSIVE SortByConfidence(_)
\* list.sort((a, b) => b.confidence - a.confidence), a stable sort
SortByConfidence(list) ==
    IF list = << >> THEN << >>
    ELSE InsertByConfidence(SortByConfidence(SubSeq(list, 1, Len(list) - 1)),
                            list[Len(list)])

\* a call of split on a value that is not a string throws a TypeError
SplitThrows(rows, key) == \E i \in 1..Len(rows) : rows[i][key].t # "str"

EngineOk(value) == [threw |-> FALSE, value |-> value]
EngineThrew == [threw |-> TRUE, value |-> << >>]

generateRuleRecommendations(ws, ts, tick) ==
    IF SplitThrows(ts, "RequiredSkills") \/ SplitThrows(ws, "Skills") THEN EngineThrew
    ELSE EngineOk(SortByConfidence(PushedRecommendations(ws, ts, tick)))

-----------------------------------------------------------------------------
(* One call of generateRuleRecommendations on collections drawn from rows. *)

RecTask(id, skills) ==
    Task(Str(<< id >>), Str(<< "n" >>), Str(<< "k" >>), Num(1), skills,
         Str(<< "[", "1", "]" >>), Num(1))

RecTaskRows ==
    { RecTask("T1", Str(<< "a" >>)),
      RecTask("T2", Str(<< "a", ",", " ", "a" >>)),
      RecTask("T3", Str(<< "b", ",", "a" >>)),
      RecTask("T4", Str(<< "a", " ", ",", "b" >>)),
      RecTask("T5", Str(<< "a", "|", "b" >>)),
      RecTask("T6", Num(7)) }

RecWorker(id, skills, maxLoad, group) ==
    Worker(Str(<< id >>), Str(<< "n" >>), skills, Arr(<< "1" >>), Num(maxLoad),
           Str(<< group >>), Num(1))

RecWorkerRows ==
    { RecWorker("W1", Str(<< "a" >>), 1, "g"),
      RecWorker("W2", Str(<< "b" >>), 4, "g"),
      RecWorker("W3", Str(<< "z", ",", "a" >>), 2, "h"),
      RecWorker("W4", Str(<< "a" >>), 0, "h") }

InitRecs ==
    \E ws \in SeqsFromZero(RecWorkerRows, MaxMixedRows),
       ts \in SeqsFromZero(RecTaskRows, MaxRows) :
        InitRun(<< >>, ws, ts)

\* the number of recommendations a call pushes
PushCount(ws, ts) ==
    IF SplitThrows(ts, "RequiredSkills") \/ SplitThrows(ws, "Skills") THEN 0
    ELSE Len(PushedRecommendations(ws, ts, 0))

\* const recommendations = await aiEngine.generateRuleRecommendations()
RunRecommendations ==
    /\ vpc = "ready"
    /\ \E tick \in 0..PushCount(workers, tasks) :
           vresult' = generateRuleRecommendations(workers, tasks, tick)
    /\ vpc' = "done"
    /\ UNCHANGED << clients, workers, tasks, validationErrors, priorityWeights,
                    crashed, steps, prev, normVars, naturalLanguageRule, uiVars >>

NextRecs == RunRecommendations

SpecRecs == InitRecs /\ [][NextRecs]_vars

\* generateRuleRecommendations has returned a list
Recommended == vpc = "done" /\ ~vresult.threw

\* C16: the list generateRuleRecommendations returns is sorted by confidence
\* in non-increasing order
C16_SortedByConfidence ==
    Recommended =>
        \A i \in 1..(Len(vresult.value) - 1) :
            vresult.value[i].confidence >= vresult.value[i + 1].confidence

\* a returned list whose order differs from the order of the pushes: a co-run
\* recommendation of confidence 0.7 was pushed before a load-limit one of 0.75
C16_Witness ==
    /\ Recommended
    /\ Len(vresult.value) >= 2
    /\ \E i \in 1..Len(vresult.value), j \in 1..Len(vresult.value) :
           /\ i < j
           /\ vresult.value[i].type = "loadLimit"
           /\ vresult.value[j].type = "coRun"
           /\ vresult.value[i].confidence > vresult.value[j].confidence

\* the demand and the supply of a skill, counted over the collections held
DemandOf(skill) == Occurrences(SkillEntries(tasks, "RequiredSkills"), skill)
SupplyOf(skill) == Occurrences(SkillEntries(workers, "Skills"), skill)

\* min(0.9, 0.5 + 0.1 x n) in hundredths
CappedConfidence(n) == IF 50 + 10 * n > 90 THEN 90 ELSE 50 + 10 * n

CoRuns == { r \in 1..Len(vresult.value) : vresult.value[r].type = "coRun" }

\* one co-run recommendation lists the tasks of rows i and j
Together(i, j) ==
    \E r \in CoRuns :
        LET listed == vresult.value[r].parameters.tasks
        IN  \E p \in 1..Len(listed), q \in 1..Len(listed) :
                p # q /\ listed[p] = tasks[i].TaskID /\ listed[q] = tasks[j].TaskID

\* the rows of tasks that Same relates to row i, row i included
RowsLike(Same(_, _), i) == { j \in 1..Len(tasks) : Same(i, j) }

\* the co-run recommendations are what grouping the tasks by Same gives: two
\* tasks are listed together iff Same holds of them, and every group of two
\* or more has one recommendation that lists exactly its task IDs
GroupedBy(Same(_, _)) ==
    LET shared == { i \in 1..Len(tasks) : Cardinality(RowsLike(Same, i)) > 1 }
    IN  /\ \A i \in 1..Len(tasks), j \in 1..Len(tasks) :
               i # j => (Together(i, j) <=> Same(i, j))
        /\ Cardinality(CoRuns) = Cardinality({ RowsLike(Same, i) : i \in shared })
        /\ \A i \in shared :
               \E r \in CoRuns :
                   LET listed == vresult.value[r].parameters.tasks
                   IN  /\ Len(listed) = Cardinality(RowsLike(Same, i))
                       /\ Range(listed) = { tasks[j].TaskID : j \in RowsLike(Same, i) }

SameSkillSet(i, j) ==
    ListedSkills(tasks[i].RequiredSkills) = ListedSkills(tasks[j].RequiredSkills)

SameSkillKey(i, j) == SkillKeyOf(tasks[i]) = SkillKeyOf(tasks[j])

\* C18: two tasks are in the same coRun recommendation iff their
\* RequiredSkills are equal as sets of trimmed entries, whatever the order and
\* the repetitions; a set shared by 2 or more tasks yields exactly one coRun
\* recommendation listing exactly those tasks, a set of one task yields none
C18_CoRunIffSameSkillSet == Recommended => GroupedBy(SameSkillSet)

\* what the code gives: the tasks are grouped by the text of their sorted
\* entries joined by |, which keeps the repetitions
C18_CoRunIffSameSkillKey == Recommended => GroupedBy(SameSkillKey)

-----------------------------------------------------------------------------
(* AIEngine.suggestCorrections and its caller generateAICorrections.       *)

\* this.tasks.find(t => t.TaskID === taskId): the row of the first task with
\* the ID, 0 when there is none
FindTask(ts, taskId) ==
    LET hits == { k \in 1..Len(ts) : ts[k].TaskID = Str(taskId) }
    IN  IF hits = {} THEN 0 ELSE CHOOSE k \in hits : \A h \in hits : k <= h

\* the filter callback on one requested ID: "throw" when it calls split on a
\* RequiredSkills that is not a string
ProbeTask(ts, taskId) ==
    LET k == FindTask(ts, taskId)
    IN  IF k = 0 THEN "simple"
        ELSE IF JsLess(Num(3), ts[k].Duration) THEN "complex"
        ELSE IF ts[k].RequiredSkills.t # "str" THEN "throw"
        ELSE IF Len(Split(ts[k].RequiredSkills.s)) > 2 THEN "complex"
        ELSE "simple"

\* the probes of the requested IDs of a client, in text order; none when
\* RequestedTaskIDs is falsy
ProbesOf(client, ts) ==
    IF ~Truthy(client.RequestedTaskIDs) \/ client.RequestedTaskIDs.t # "str" THEN << >>
    ELSE LET requestedTasks == SplitTrim(client.RequestedTaskIDs.s)
         IN  [ k \in 1..Len(requestedTasks) |-> ProbeTask(ts, requestedTasks[k]) ]

\* the callback of data.forEach throws on this client
ClientThrows(client, ts) ==
    /\ Truthy(client.RequestedTaskIDs)
    /\ \/ client.RequestedTaskIDs.t # "str"
       \/ \E k \in 1..Len(ProbesOf(client, ts)) : ProbesOf(client, ts)[k] = "throw"

\* complexTasks.length
ComplexCount(client, ts) ==
    Cardinality({ k \in 1..Len(ProbesOf(client, ts)) : ProbesOf(client, ts)[k] = "complex" })

SuggestsFor(client, ts) ==
    ComplexCount(client, ts) > 0 /\ JsLess(client.PriorityLevel, Num(3))

Correction(client, ts) ==
    [ id |-> client.ClientID,
      field |-> "PriorityLevel",
      currentValue |-> client.PriorityLevel,
      suggestedValue |-> 4,
      confidence |-> 75,
      reasoning |-> << "Client has " >> \o NumText(ComplexCount(client, ts))
                      \o << " complex tasks but low priority" >> ]

suggestCorrections(data, entity, ts) ==
    IF entity # "client" THEN EngineOk(<< >>)
    ELSE IF \E i \in 1..Len(data) : ClientThrows(data[i], ts) THEN EngineThrew
    ELSE LET picked == SelectSeq(data, LAMBDA client : SuggestsFor(client, ts))
         IN  EngineOk([ k \in 1..Len(picked) |-> Correction(picked[k], ts) ])

\* the three calls of generateAICorrections and the list it installs
generateAICorrections(cs, ws, ts) ==
    LET clientCorrections == suggestCorrections(cs, "client", ts)
        workerCorrections == suggestCorrections(ws, "worker", ts)
        taskCorrections == suggestCorrections(ts, "task", ts)
    IN  IF clientCorrections.threw THEN EngineThrew
        ELSE [ threw |-> FALSE,
               value |-> clientCorrections.value \o workerCorrections.value
                           \o taskCorrections.value,
               client |-> clientCorrections.value,
               worker |-> workerCorrections.value,
               task |-> taskCorrections.value ]

CorrClient(id, level, requested) ==
    Client(Str(<< id >>), Str(<< "n" >>), level, requested, Str(<< "g" >>), NoText)

CorrClientRows ==
    { CorrClient("C1", Num(1), Str(<< "T1" >>)),
      CorrClient("C2", Num(2), Str(<< "T2", ",", " ", "T3", ",", "T2" >>)),
      CorrClient("C3", Num(3), Str(<< "T1", ",", "T2" >>)),
      CorrClient("C4", Num(1), NoText) }

CorrTask(id, duration, skills) ==
    Task(Str(<< id >>), Str(<< "n" >>), Str(<< "k" >>), Num(duration), skills,
         Str(<< "[", "1", "]" >>), Num(1))

CorrTaskRows ==
    { CorrTask("T1", 1, Str(<< "a" >>)),
      CorrTask("T1", 5, Str(<< "a" >>)),
      CorrTask("T2", 3, Str(<< "a", ",", "b", ",", "c" >>)),
      CorrTask("T2", 1, Str(<< "a", ",", "a", ",", "a" >>)),
      CorrTask("T3", 1, Num(7)) }

InitCorr ==
    \E cs \in SeqsFromZero(CorrClientRows, MaxMixedRows),
       ts \in SeqsFromZero(CorrTaskRows, MaxRows) :
        InitRun(cs, << >>, ts)

\* generateAICorrections of the validation panel
RunCorrections ==
    /\ vpc = "ready"
    /\ vresult' = generateAICorrections(clients, workers, tasks)
    /\ vpc' = "done"
    /\ UNCHANGED << clients, workers, tasks, validationErrors, priorityWeights,
                    crashed, steps, prev, normVars, naturalLanguageRule, uiVars >>

NextCorr == RunCorrections

SpecCorr == InitCorr /\ [][NextCorr]_vars

\* the three calls of suggestCorrections have returned
Corrected == vpc = "done" /\ ~vresult.threw

\* the IDs of the clients that P holds of, in row order
ClientsWhere(P(_)) ==
    LET picked == SelectSeq(clients, P)
    IN  [ k \in 1..Len(picked) |-> picked[k].ClientID ]

\* the call for 'client' returned one correction (PriorityLevel, 4, 0.75) for
\* each client that P holds of and no other; the other two calls returned []
CorrectsExactly(P(_)) ==
    /\ [ k \in 1..Len(vresult.client) |-> vresult.client[k].id ] = ClientsWhere(P)
    /\ \A k \in 1..Len(vresult.client) :
           /\ vresult.client[k].field = "PriorityLevel"
           /\ vresult.client[k].suggestedValue = 4
           /\ vresult.client[k].confidence = 75
    /\ vresult.worker = << >>
    /\ vresult.task = << >>

\* the IDs a client requests
RequestedOf(client) ==
    IF client.RequestedTaskIDs.t = "str" THEN Range(SplitTrim(client.RequestedTaskIDs.s))
    ELSE {}

\* the client has a PriorityLevel under 3 and requests an existing task with
\* a Duration over 3 or more than 2 entries in its RequiredSkills
LowPriorityWithComplexTask(client) ==
    /\ JsLess(client.PriorityLevel, Num(3))
    /\ \E k \in 1..Len(tasks) :
           /\ tasks[k].TaskID.t = "str"
           /\ tasks[k].TaskID.s \in RequestedOf(client)
           /\ \/ JsLess(Num(3), tasks[k].Duration)
              \/ /\ tasks[k].RequiredSkills.t = "str"
                 /\ Len(Split(tasks[k].RequiredSkills.s)) > 2

\* C19: suggestCorrections(records, 'client') returns exactly one correction
\* (field PriorityLevel, suggestedValue 4, confidence 0.75) for each client
\* with PriorityLevel < 3 that requests an existing task with Duration > 3 or
\* more than 2 required skills, none for another client, and [] for 'worker'
\* and 'task'
C19_CorrectionIffLowPriorityComplex ==
    Corrected => CorrectsExactly(LowPriorityWithComplexTask)

\* no two tasks share a TaskID
UniqueTaskIDs ==
    \A i \in 1..Len(tasks), j \in 1..Len(tasks) : tasks[i].TaskID = tasks[j].TaskID => i = j

\* what the code gives: of the tasks with a requested ID only the first one
\* is looked at, so the statement holds when no TaskID is repeated
C19_CorrectionIffComplexWhenUnique ==
    (Corrected /\ UniqueTaskIDs) => CorrectsExactly(LowPriorityWithComplexTask)

-----------------------------------------------------------------------------
(* AIEngine.convertToRule.  A text is a sequence of tokens: a word of      *)
(* letters, a numeral, a space, a comma or another punctuation mark.       *)

\* the words with capital letters and their lower-case spelling
UpperCase == { << "Bolt", "bolt" >>, << "Tasks", "tasks" >>, << "Task", "task" >>, << "Together", "together" >>,
               << "Phase", "phase" >>, << "T", "t" >> }

\* String.prototype.toLowerCase
toLowerCase(text) ==
    [ i \in 1..Len(text) |->
        IF \E p \in UpperCase : p[1] = text[i]
        THEN (CHOOSE p \in UpperCase : p[1] = text[i])[2]
        ELSE text[i] ]

\* the marks outside the class [a-zA-Z0-9,\s]
Punctuation == { "-", "[", "]", "." }

\* the words that contain the word task, and those that contain phase
TaskWords == { "task", "tasks" }
PhaseWords == { "phase", "phases" }

\* rule.includes(keyword), the keyword spelled as tokens
Includes(rule, keyword) ==
    \E i \in 1..(Len(rule) - Len(keyword) + 1) :
        SubSeq(rule, i, i + Len(keyword) - 1) = keyword

IncludesWord(rule, words) == \E i \in 1..Len(rule) : rule[i] \in words

RECURSIVE ClassRunEnd(_, _)
\* the last index of the run of [a-zA-Z0-9,\s] tokens that starts at i, i - 1
\* when there is none
ClassRunEnd(rule, i) ==
    IF i <= Len(rule) /\ rule[i] \notin Punctuation THEN ClassRunEnd(rule, i + 1)
    ELSE i - 1

\* the numerals written with leading zeros, and their value as a numeral
PaddedNumerals == { << "001", "1" >>, << "002", "2" >> }

Unpadded(tok) ==
    IF \E p \in PaddedNumerals : p[1] = tok
    THEN (CHOOSE p \in PaddedNumerals : p[1] = tok)[2]
    ELSE tok

\* the token is made of digits
IsDigits(tok) == IsNumeral(Unpadded(tok))

RECURSIVE DigitRunEnd(_, _)
\* the last index of the run of numerals that starts at i, i - 1 when none
DigitRunEnd(rule, i) ==
    IF i <= Len(rule) /\ IsDigits(rule[i]) THEN DigitRunEnd(rule, i + 1)
    ELSE i - 1

NoMatch == [found |-> FALSE, group |-> << >>]
Match(group) == [found |-> TRUE, group |-> group]

\* /task[s]?\s*([a-zA-Z0-9,\s]+)/i tried at the word at index i
TaskMatchAt(rule, i) ==
    LET k == SkipWs(rule, i + 1)
        e == ClassRunEnd(rule, k)
    IN  IF e >= k THEN Match(SubSeq(rule, k, e))
        ELSE IF k > i + 1 THEN Match(<< " " >>)
        ELSE IF rule[i] = "tasks" THEN Match(<< "s" >>)
        ELSE NoMatch

RECURSIVE FirstMatch(_, _, _)
\* the match at the leftmost index from i on where At finds one
FirstMatch(At(_, _), rule, i) ==
    IF i > Len(rule) THEN NoMatch
    ELSE IF At(rule, i).found THEN At(rule, i)
    ELSE FirstMatch(At, rule, i + 1)

TaskMatchFrom(rule, i) == IF rule[i] \in TaskWords THEN TaskMatchAt(rule, i) ELSE NoMatch

\* rule.match(/task[s]?\s*([a-zA-Z0-9,\s]+)/i), group 1
taskMatch(rule) == FirstMatch(TaskMatchFrom, rule, 1)

\* /(\d+).*?tasks?/i tried at index i: a run of digits with the word task
\* somewhere after it
LimitMatchFrom(rule, i) ==
    IF /\ IsDigits(rule[i])
       /\ \E j \in (DigitRunEnd(rule, i) + 1)..Len(rule) : rule[j] \in TaskWords
    THEN Match(SubSeq(rule, i, DigitRunEnd(rule, i)))
    ELSE NoMatch

\* rule.match(/(\d+).*?tasks?/i), group 1
limitMatch(rule) == FirstMatch(LimitMatchFrom, rule, 1)

RECURSIVE ListEnd(_, _)
\* the index of the ] that closes \d+(?:,\d+)* read from i, 0 when the text
\* does not go on that way
ListEnd(rule, i) ==
    LET e == DigitRunEnd(rule, i)
    IN  IF e < i \/ e = Len(rule) THEN 0
        ELSE IF rule[e + 1] = "]" THEN e + 1
        ELSE IF rule[e + 1] = "," THEN ListEnd(rule, e + 2)
        ELSE 0

\* (\d+(?:-\d+)?|\[\d+(?:,\d+)*\]) read from k: the last index of group 1, 0
\* when neither alternative matches
PhaseSpecEnd(rule, k) ==
    LET e == DigitRunEnd(rule, k)
    IN  IF e >= k
        THEN IF e < Len(rule) /\ rule[e + 1] = "-" /\ DigitRunEnd(rule, e + 2) >= e + 2
             THEN DigitRunEnd(rule, e + 2)
             ELSE e
        ELSE IF k <= Len(rule) /\ rule[k] = "[" THEN ListEnd(rule, k + 1)
        ELSE 0

\* /phase[s]?\s*(\d+(?:-\d+)?|\[\d+(?:,\d+)*\])/i tried at index i
PhaseMatchFrom(rule, i) ==
    IF rule[i] \in PhaseWords /\ PhaseSpecEnd(rule, SkipWs(rule, i + 1)) > 0
    THEN Match(SubSeq(rule, SkipWs(rule, i + 1), PhaseSpecEnd(rule, SkipWs(rule, i + 1))))
    ELSE NoMatch

\* rule.match(/phase[s]?\s*(...)/i), group 1
phaseMatch(rule) == FirstMatch(PhaseMatchFrom, rule, 1)

RECURSIVE StripZeros(_)
\* String(parseInt(digits)): the digits without leading zeros
StripZeros(digits) ==
    IF Len(digits) > 1 /\ digits[1] = "0" THEN StripZeros(Tail(digits))
    ELSE << Unpadded(digits[1]) >> \o Tail(digits)

RECURSIVE parseInt(_)
\* parseInt of a run of numerals
parseInt(digits) ==
    IF digits = << >> THEN 0
    ELSE LET last == digits[Len(digits)]
             shift == IF last # Unpadded(last) THEN 1000
                      ELSE IF NumeralValue(last) < 10 THEN 10 ELSE 100
         IN  parseInt(SubSeq(digits, 1, Len(digits) - 1)) * shift
               + NumeralValue(Unpadded(last))

CoRunKeyword(rule) ==
    \/ Includes(rule, << "together" >>)
    \/ Includes(rule, << "same", " ", "time" >>)
    \/ Includes(rule, << "co", "-", "run" >>)

LoadLimitKeyword(rule) ==
    \/ Includes(rule, << "limit" >>)
    \/ Includes(rule, << "maximum" >>)
    \/ Includes(rule, << "no", " ", "more", " ", "than" >>)

PhaseWindowKeyword(rule) ==
    /\ IncludesWord(rule, PhaseWords)
    /\ Includes(rule, << "only" >>) \/ Includes(rule, << "must" >>)

Null == [type |-> "null"]

coRunRule(taskIds, now) ==
    [ id |-> << "corun-", now >>, type |-> "coRun", name |-> << "Co-run Tasks" >>,
      description |-> << "Tasks " >> \o Join(taskIds, << ",", " " >>)
                        \o << " must run together" >>,
      parameters |-> [ tasks |-> taskIds ], priority |-> 1, active |-> TRUE ]

loadLimitRule(digits, now) ==
    [ id |-> << "loadlimit-", now >>, type |-> "loadLimit", name |-> << "Load Limit" >>,
      description |-> << "Maximum " >> \o StripZeros(digits) \o << " tasks per phase" >>,
      parameters |-> [ maxSlotsPerPhase |-> parseInt(digits) ],
      priority |-> 1, active |-> TRUE ]

phaseWindowRule(phaseSpec, now) ==
    [ id |-> << "phasewindow-", now >>, type |-> "phaseWindow", name |-> << "Phase Window" >>,
      description |-> << "Restrict to phases " >> \o phaseSpec,
      parameters |-> [ allowedPhases |-> phaseSpec ], priority |-> 1, active |-> TRUE ]

\* the three detections one after the other; a detection whose pattern finds
\* nothing falls through to the next one
convertToRule(naturalLanguage, now) ==
    LET rule == toLowerCase(naturalLanguage)
    IN  IF CoRunKeyword(rule) /\ taskMatch(rule).found
        THEN coRunRule(SplitTrim(taskMatch(rule).group), now)
        ELSE IF LoadLimitKeyword(rule) /\ limitMatch(rule).found
        THEN loadLimitRule(limitMatch(rule).group, now)
        ELSE IF PhaseWindowKeyword(rule) /\ phaseMatch(rule).found
        THEN phaseWindowRule(phaseMatch(rule).group, now)
        ELSE Null

-----------------------------------------------------------------------------
(* One call of convertToRule on a text drawn from a vocabulary.            *)

MaxWords == 4            \* tokens of the text handed to convertToRule

RuleVocabulary == { "together", "maximum", "phase", "only", "task", "3", " " }

InitConvert ==
    \E text \in SeqsFromZero(RuleVocabulary, MaxWords) :
        /\ clients = << >>
        /\ workers = << >>
        /\ tasks = << >>
        /\ validationErrors = << >>
        /\ priorityWeights = InitialWeights
        /\ crashed = FALSE
        /\ steps = 0
        /\ prev = NoPrev
        /\ normIn = InitialWeights
        /\ normField = "none"
        /\ normValue = 0
        /\ normOut = InitialWeights
        /\ vpc = "ready"
        /\ vresult = [threw |-> FALSE, value |-> Null]
        /\ naturalLanguageRule = text
        /\ InitUi

\* const rule = await aiEngine.convertToRule(naturalLanguageRule), at one of
\* two readings of the clock
RunConvert ==
    /\ vpc = "ready"
    /\ \E now \in 0..1 : vresult' = EngineOk(convertToRule(naturalLanguageRule, now))
    /\ vpc' = "done"
    /\ UNCHANGED << clients, workers, tasks, validationErrors, priorityWeights,
                    crashed, steps, prev, normVars, naturalLanguageRule, uiVars >>

NextConvert == RunConvert

SpecConvert == InitConvert /\ [][NextConvert]_vars

\* convertToRule has returned
Converted == vpc = "done"

\* the first category, in the order co-run, load-limit, phase-window, whose
\* keyword occurs in the text
KeywordCategory(rule) ==
    IF CoRunKeyword(rule) THEN "coRun"
    ELSE IF LoadLimitKeyword(rule) THEN "loadLimit"
    ELSE IF PhaseWindowKeyword(rule) THEN "phaseWindow"
    ELSE "none"

\* the pattern of a category is present in the text
PatternPresent(category, rule) ==
    CASE category = "coRun" -> taskMatch(rule).found
      [] category = "loadLimit" -> limitMatch(rule).found
      [] category = "phaseWindow" -> phaseMatch(rule).found
      [] OTHER -> FALSE

\* C20: convertToRule decides on the first category whose keyword occurs: it
\* returns a rule of that category when the category's pattern is present and
\* null when the pattern is absent or no keyword occurs; a later category
\* never produces the rule when an earlier category's keyword is present
C20_FirstKeywordDecides ==
    Converted =>
        LET rule == toLowerCase(naturalLanguageRule)
        IN  IF PatternPresent(KeywordCategory(rule), rule)
            THEN vresult.value.type = KeywordCategory(rule)
            ELSE vresult.value = Null

\* the categories whose keyword and pattern are both present
Complete(rule) ==
    { c \in { "coRun", "loadLimit", "phaseWindow" } :
        /\ PatternPresent(c, rule)
        /\ \/ c = "coRun" /\ CoRunKeyword(rule)
           \/ c = "loadLimit" /\ LoadLimitKeyword(rule)
           \/ c = "phaseWindow" /\ PhaseWindowKeyword(rule) }

\* what the code gives: the rule of the first category whose keyword and
\* pattern are both present, null when there is none
C20_FirstCompleteCategoryDecides ==
    Converted =>
        LET rule == toLowerCase(naturalLanguageRule)
        IN  vresult.value.type =
                IF "coRun" \in Complete(rule) THEN "coRun"
                ELSE IF "loadLimit" \in Complete(rule) THEN "loadLimit"
                ELSE IF "phaseWindow" \in Complete(rule) THEN "phaseWindow"
                ELSE "null"

-----------------------------------------------------------------------------
(* One call of convertToRule on a co-run phrase that names task IDs.       *)

MaxNamed == 2            \* task IDs a co-run phrase names

\* task IDs as a text spells them
PhraseIds == { << "T", "001" >>, << "T", "002" >>, << "t", "1" >> }

\* what stands between two IDs
PhraseSeparators == { << " ", "and", " " >>, << ",", " " >>, << "," >> }

\* the words before the IDs and the words after them
PhraseHeads == { << "Tasks", " " >>, << "tasks", " " >>,
                 << "run", " ", "together", " ", "tasks", " " >> }
PhraseTails == { << " ", "must", " ", "run", " ", "together" >>,
                 << " ", "at", " ", "the", " ", "same", " ", "time" >>,
                 << ".", " ", "co", "-", "run" >> }

\* the sentences: a head, the IDs with one separator between them, a tail
CoRunPhrases ==
    { head \o Join(ids, sep) \o tail :
        head \in PhraseHeads, ids \in SeqsUpTo(PhraseIds, MaxNamed),
        sep \in PhraseSeparators, tail \in PhraseTails }

InitPhrase ==
    \E text \in CoRunPhrases :
        /\ clients = << >>
        /\ workers = << >>
        /\ tasks = << >>
        /\ validationErrors = << >>
        /\ priorityWeights = InitialWeights
        /\ crashed = FALSE
        /\ steps = 0
        /\ prev = NoPrev
        /\ normIn = InitialWeights
        /\ normField = "none"
        /\ normValue = 0
        /\ normOut = InitialWeights
        /\ vpc = "ready"
        /\ vresult = [threw |-> FALSE, value |-> Null]
        /\ naturalLanguageRule = text
        /\ InitUi

SpecPhrase == InitPhrase /\ [][NextConvert]_vars

\* the task IDs a text names, in text order and as the text spells them: a
\* letter T followed by digits
NamedIds(text) ==
    LET at == SelectSeq([ i \in 1..Len(text) |-> i ],
                        LAMBDA i : /\ text[i] \in { "T", "t" }
                                   /\ i < Len(text)
                                   /\ IsDigits(text[i + 1]))
    IN  [ k \in 1..Len(at) |-> SubSeq(text, at[k], at[k] + 1) ]

\* C21: for a co-run phrase naming task IDs, as in "Tasks T001 and T002 must
\* run together", convertToRule returns a coRun rule whose parameters.tasks
\* is the sequence of the IDs named, in text order and in their spelling
C21_CoRunListsNamedIds ==
    Converted =>
        /\ vresult.value.type = "coRun"
        /\ vresult.value.parameters.tasks = NamedIds(naturalLanguageRule)

\* what the code gives: a coRun rule that lists the comma-separated pieces of
\* the lower-case text that follows the first word "task(s)", up to the first
\* character that is no letter, digit, comma or space
C21_CoRunListsLowerCasePieces ==
    Converted =>
        /\ vresult.value.type = "coRun"
        /\ vresult.value.parameters.tasks
             = SplitTrim(taskMatch(toLowerCase(naturalLanguageRule)).group)

-----------------------------------------------------------------------------
(* DataGrid for the clients: the filter box and the cell editor.           *)

ClientFields == << "ClientID", "ClientName", "PriorityLevel", "RequestedTaskIDs",
                   "GroupTag", "AttributesJSON" >>

\* Object.values(row).some(value =>
\*     String(value).toLowerCase().includes(searchTerm.toLowerCase()))
RowMatches(row, searchTerm) ==
    \E k \in 1..Len(ClientFields) :
        Includes(toLowerCase(ToStr(row[ClientFields[k]])), toLowerCase(searchTerm))

\* the indices in data of the rows of filteredData, in display order
FilteredRows(data, searchTerm) ==
    IF searchTerm = << >> THEN [ i \in 1..Len(data) |-> i ]
    ELSE SelectSeq([ i \in 1..Len(data) |-> i ], LAMBDA i : RowMatches(data[i], searchTerm))

\* filteredData
filteredData(data, searchTerm) ==
    [ k \in 1..Len(FilteredRows(data, searchTerm)) |-> data[FilteredRows(data, searchTerm)[k]] ]

\* the texts typed into the filter box and into a cell's input
SearchTerms == { << >>, << "bolt" >>, << "g" >>, << "T9" >> }
CellTexts == { << "5" >>, << "x" >> }

\* the columns whose cells are clicked
ClickedFields == { "ClientName", "PriorityLevel" }

MaxSaves == 1            \* cell edits saved in the grid

\* the page shows the client grid over uploaded clients
InitGrid ==
    \E cs \in SeqsUpTo(PageClientRows, MaxMixedRows) :
        /\ clients = cs
        /\ workers = << >>
        /\ tasks = << >>
        /\ validationErrors = validateAll(cs, << >>, << >>).errors
        /\ priorityWeights = InitialWeights
        /\ crashed = FALSE
        /\ steps = 0
        /\ prev = NoPrev
        /\ normIn = InitialWeights
        /\ normField = "none"
        /\ normValue = 0
        /\ normOut = InitialWeights
        /\ vpc = "idle"
        /\ vresult = NoRun
        /\ naturalLanguageRule = << >>
        /\ InitUi

GridStep ==
    /\ ~crashed
    /\ UNCHANGED << pageVars, priorityWeights, normVars, runVars, aiRecommendations,
                    businessRules, aiCorrections >>

\* onChange of the filter box: setSearchTerm(e.target.value)
setSearchTerm ==
    /\ GridStep
    /\ \E term \in SearchTerms : grid' = [grid EXCEPT !.searchTerm = term]

\* a click on a cell of a displayed row: rowIndex counts the rows of
\* filteredData, the columns are the keys of data[0]
startEdit ==
    /\ GridStep
    /\ \E rowIndex \in 1..Len(FilteredRows(clients, grid.searchTerm)),
          k \in 1..Len(ClientFields) :
           /\ ClientFields[k] \in ClickedFields
           /\ clients[1][ClientFields[k]] # Undef
           /\ grid' = [grid EXCEPT
                         !.editingCell = [row |-> rowIndex, field |-> ClientFields[k]],
                         !.editValue =
                             ToStr(filteredData(clients, grid.searchTerm)[rowIndex][ClientFields[k]])]

\* the editor is displayed: a row of filteredData has the index of editingCell
EditorShown ==
    /\ grid.editingCell.row >= 1
    /\ grid.editingCell.row <= Len(FilteredRows(clients, grid.searchTerm))

\* onChange of the cell's input: setEditValue(e.target.value)
setEditValue ==
    /\ GridStep
    /\ EditorShown
    /\ \E text \in CellTexts : grid' = [grid EXCEPT !.editValue = text]

\* Enter or the save button: onCellEdit(editingCell.row, editingCell.field,
\* processedValue), which the page passes to handleCellEdit('client', ...)
saveEdit ==
    /\ EditorShown
    /\ steps < MaxSaves
    /\ handleCellEdit("client", grid.editingCell.row, grid.editingCell.field,
                      ProcessEditValue(grid.editValue))
    /\ grid' = [grid EXCEPT !.editingCell = NoCell, !.editValue = << >>]
    /\ UNCHANGED << aiRecommendations, businessRules, aiCorrections >>

cancelEdit ==
    /\ GridStep
    /\ EditorShown
    /\ grid' = [grid EXCEPT !.editingCell = NoCell, !.editValue = << >>]

NextGrid == setSearchTerm \/ startEdit \/ setEditValue \/ saveEdit \/ cancelEdit

SpecGrid == InitGrid /\ [][NextGrid]_vars

\* the index in the stored collection of the record displayed in the row
\* that holds the editor
DisplayedRecord == FilteredRows(clients, grid.searchTerm)[grid.editingCell.row]

\* a step that saves the cell being edited
SavesEdit == EditorShown /\ steps' = steps + 1

\* C22: when a cell edit is saved, the record whose field changes in the
\* stored collection is the record displayed in the edited row and no other
\* record changes, whatever the search term
C22_EditChangesDisplayedRecord ==
    [][ SavesEdit =>
          \A i \in 1..Len(clients) :
              clients'[i] =
                  IF i = DisplayedRecord
                  THEN [clients[i] EXCEPT
                          ![grid.editingCell.field] = ProcessEditValue(grid.editValue)]
                  ELSE clients[i] ]_vars

\* what the code gives: the record that changes is the one at the row's
\* index in the unfiltered collection
C22_EditChangesRecordAtRowIndex ==
    [][ SavesEdit =>
          \A i \in 1..Len(clients) :
              clients'[i] =
                  IF i = grid.editingCell.row
                  THEN [clients[i] EXCEPT
                          ![grid.editingCell.field] = ProcessEditValue(grid.editValue)]
                  ELSE clients[i] ]_vars

-----------------------------------------------------------------------------
(* Claims about the id of a ValidationError.                               *)

\* C23: within one result of validateAll no two errors share an id
C23_ErrorIdsDistinct ==
    Returned =>
        \A i \in 1..Len(vresult.errors), j \in 1..Len(vresult.errors) :
            vresult.errors[i].id = vresult.errors[j].id => i = j

\* what the code gives: two errors share an id only when they have the same
\* kind and were raised for the same entity ID (and the same field, task ID
\* or skill): rows that repeat an ID, or a list that repeats an entry
C23_SharedIdOnlyForRepeats ==
    Returned =>
        \A i \in 1..Len(vresult.errors), j \in 1..Len(vresult.errors) :
            vresult.errors[i].id = vresult.errors[j].id =>
                /\ vresult.errors[i].type = vresult.errors[j].type
                /\ vresult.errors[i].entity = vresult.errors[j].entity
                /\ vresult.errors[i].entityId = vresult.errors[j].entityId

-----------------------------------------------------------------------------
(* FileParser.normalizeRow for a worker row, and the upload of a sheet.    *)

\* a numeric text in a column named ...MaxLoad..., ...Qualification...:
\* normalized[key] = Number(value)
NormalizeNumber(value) ==
    IF value.t = "str" /\ Trim(value.s) # << >> /\ ~ToNumber(value).nan
    THEN Num(ToNumber(value).n)
    ELSE value

\* String(array) of the array a JSON text denotes: its elements joined by
\* commas
ArrayString(text) == SelectSeq(text, LAMBDA tok : tok \notin { "[", "]", " ", "\"" })

RECURSIVE StringifySlots(_)
\* the elements of JSON.stringify(slots): parseInt(s) when it is a number,
\* the quoted text otherwise
StringifySlots(parts) ==
    IF parts = << >> THEN << >>
    ELSE (IF Len(Head(parts)) = 1 /\ IsNumeral(Head(parts)[1]) THEN Head(parts)
          ELSE << "\"" >> \o Head(parts) \o << "\"" >>)
         \o (IF Len(parts) > 1 THEN << "," >> ELSE << >>)
         \o StringifySlots(Tail(parts))

\* the AvailableSlots of a normalized worker row: the value JSON.parse gives
\* for a text that parses (an array or a number here), and otherwise the
\* JSON text of its comma-separated entries
NormalizeSlots(value) ==
    IF ~Truthy(value) \/ value.t # "str" THEN value
    ELSE IF ParseText(value.s).ok
         THEN IF ParseText(value.s).kind = "arr" THEN Arr(ArrayString(value.s))
              ELSE Num(ToNumber(value).n)
         ELSE Str(<< "[" >> \o StringifySlots(SplitTrim(value.s)) \o << "]" >>)

normalizeRow(row, entityType) ==
    IF entityType = "worker"
    THEN [row EXCEPT !.MaxLoadPerPhase = NormalizeNumber(row.MaxLoadPerPhase),
                     !.QualificationLevel = NormalizeNumber(row.QualificationLevel),
                     !.AvailableSlots = NormalizeSlots(row.AvailableSlots)]
    ELSE row

\* the AvailableSlots cells of the sheets explored: arrays of numbers, a
\* number, a comma-separated list, an empty cell
SlotCells ==
    { << "[", "1", ",", "2", ",", "3", "]" >>, << "[", "1", ",", " ", "2", "]" >>,
      << "[", "5", "]" >>, << "[", "]" >>, << "3" >>, << "1", ",", "2" >>, << >> }

LoadCells == { << "0" >>, << "2" >>, << "4" >> }

\* the rows parseCSV builds from the lines of a worker sheet
SheetWorkerRows ==
    { Worker(Str(<< id >>), Str(<< "n" >>), Str(<< "a" >>), Str(slots), Str(load),
             Str(<< "g" >>), Str(<< "1" >>)) :
        id \in { "W1", "W2" }, slots \in SlotCells, load \in LoadCells }

\* a worker sheet is uploaded: parseFile normalizes each row and the page
\* receives the rows through onDataUploaded
UploadWorkerSheet ==
    /\ \E sheet \in SeqsUpTo(SheetWorkerRows, MaxUploadRows) :
           handleDataUploaded([ i \in 1..Len(sheet) |-> normalizeRow(sheet[i], "worker") ],
                              "worker")
    /\ UNCHANGED uiVars

NextIngest == UploadWorkerSheet

SpecIngest == InitPage /\ [][NextIngest]_vars

\* the stored AvailableSlots is an array of numbers: its cell was a JSON
\* array of numbers
NumberArray(v) ==
    v.t = "arr" /\ \A k \in 1..Len(v.s) : v.s[k] = "," \/ IsNumeral(v.s[k])

\* the length of the array
TrueLength(v) == Cardinality({ k \in 1..Len(v.s) : IsNumeral(v.s[k]) })

\* the stored errors of a kind raised for the worker
WorkerErrors(worker, kinds) ==
    { k \in 1..Len(validationErrors) :
        /\ validationErrors[k].id[1] \in kinds
        /\ validationErrors[k].entityId = worker.WorkerID }

\* C24: a worker row whose AvailableSlots cell is a JSON array of numbers
\* passes normalizeRow and validateAll without a malformed-slots or
\* invalid-slots error, and its overloaded check uses the array's length
C24_NumberArrayPassesIngestion ==
    \A i \in 1..Len(workers) :
        NumberArray(workers[i].AvailableSlots) =>
            /\ WorkerErrors(workers[i], { "malformed-slots-", "invalid-slots-" }) = {}
            /\ WorkerErrors(workers[i], { "overloaded-" }) # {}
                 <=> workers[i].MaxLoadPerPhase.n > TrueLength(workers[i].AvailableSlots)

\* what the code gives: validateAll parses the text String(array) of the
\* stored array, so the row gets a slots error and no overloaded warning
C24_NumberArrayRejected ==
    \A i \in 1..Len(workers) :
        NumberArray(workers[i].AvailableSlots) =>
            /\ WorkerErrors(workers[i], { "malformed-slots-", "invalid-slots-" }) # {}
            /\ WorkerErrors(workers[i], { "overloaded-" }) = {}

-----------------------------------------------------------------------------
(* RuleBuilder: the recommendation list and its Accept and Dismiss buttons. *)

MaxRules == 1            \* rules held in businessRules

BuilderTaskRows ==
    { RecTask("T1", Str(<< "a" >>)),
      RecTask("T3", Str(<< "b", ",", "a" >>)),
      RecTask("T6", Num(7)) }

InitBuilder ==
    \E ws \in SeqsFromZero(RecWorkerRows, MaxUploadRows),
       ts \in SeqsFromZero(BuilderTaskRows, MaxMixedRows) :
        /\ InitRun(<< >>, ws, ts)

BuilderStep ==
    UNCHANGED << pageVars, priorityWeights, normVars, runVars, grid, aiCorrections >>

\* the button "Generate": setAiRecommendations(recommendations), nothing
\* when the call throws
generateAIRecommendations ==
    /\ BuilderStep
    /\ \E tick \in 0..PushCount(workers, tasks) :
           LET r == generateRuleRecommendations(workers, tasks, tick)
           IN  aiRecommendations' = IF r.threw THEN aiRecommendations ELSE r.value
    /\ UNCHANGED businessRules

\* prev.filter(r => r.id !== recommendation.id)
WithoutId(list, id) == SelectSeq(list, LAMBDA r : r.id # id)

\* the rule acceptRecommendation builds
AcceptedRule(recommendation) ==
    [ id |-> recommendation.id, type |-> recommendation.type,
      name |-> recommendation.description, description |-> recommendation.reasoning,
      parameters |-> recommendation.parameters, priority |-> 1, active |-> TRUE ]

\* the button "Accept" of a displayed recommendation
acceptRecommendation ==
    /\ BuilderStep
    /\ Len(businessRules) < MaxRules
    /\ \E k \in 1..Len(aiRecommendations) :
           /\ businessRules' = Append(businessRules, AcceptedRule(aiRecommendations[k]))
           /\ aiRecommendations' = WithoutId(aiRecommendations, aiRecommendations[k].id)

\* the button "Dismiss" of a displayed recommendation
dismissRecommendation ==
    /\ BuilderStep
    /\ \E k \in 1..Len(aiRecommendations) :
           aiRecommendations' = WithoutId(aiRecommendations, aiRecommendations[k].id)
    /\ UNCHANGED businessRules

NextBuilder == generateAIRecommendations \/ acceptRecommendation \/ dismissRecommendation

SpecBuilder == InitBuilder /\ [][NextBuilder]_vars

\* list without its k-th entry
RemoveAt(list, k) == SubSeq(list, 1, k - 1) \o SubSeq(list, k + 1, Len(list))

\* a step of Accept or Dismiss: the list gets shorter or a rule is added
AcceptsOrDismisses ==
    Len(aiRecommendations') < Len(aiRecommendations) \/ businessRules' # businessRules

\* C25: dismissing or accepting one recommendation removes exactly that
\* recommendation from the displayed list and leaves every other one in it;
\* accepting adds exactly one rule to businessRules
C25_RemovesExactlyOne ==
    [][ AcceptsOrDismisses =>
          \E k \in 1..Len(aiRecommendations) :
              /\ aiRecommendations' = RemoveAt(aiRecommendations, k)
              /\ \/ businessRules' = businessRules
                 \/ businessRules' = Append(businessRules, AcceptedRule(aiRecommendations[k])) ]_vars

\* what the code gives: every recommendation with the id of the chosen one
\* leaves the list
C25_RemovesAllWithTheId ==
    [][ AcceptsOrDismisses =>
          \E k \in 1..Len(aiRecommendations) :
              /\ aiRecommendations' = WithoutId(aiRecommendations, aiRecommendations[k].id)
              /\ \/ businessRules' = businessRules
                 \/ businessRules' = Append(businessRules, AcceptedRule(aiRecommendations[k])) ]_vars

-----------------------------------------------------------------------------
(* ValidationPanel: the corrections displayed and their Apply button.      *)

\* the ID tokens that start with the letter C, and those that start with W
StartsWithC == { "C1", "C2" }
StartsWithW == { "W1", "W2" }

ApplyClientRows ==
    { CorrClient("C1", Num(1), Str(<< "T1" >>)),
      CorrClient("C2", Num(3), Str(<< "T1" >>)),
      CorrClient("X1", Num(1), Str(<< "T1" >>)),
      CorrClient("W1", Num(2), Str(<< "T1" >>)) }

\* the panel over uploaded clients and one task of Duration 5
InitApply ==
    \E cs \in SeqsUpTo(ApplyClientRows, MaxMixedRows) :
        LET ts == << CorrTask("T1", 5, Str(<< "a" >>)) >>
        IN  /\ clients = cs
            /\ workers = << >>
            /\ tasks = ts
            /\ validationErrors = validateAll(cs, << >>, ts).errors
            /\ priorityWeights = InitialWeights
            /\ crashed = FALSE
            /\ steps = 0
            /\ prev = NoPrev
            /\ normIn = InitialWeights
            /\ normField = "none"
            /\ normValue = 0
            /\ normOut = InitialWeights
            /\ vpc = "idle"
            /\ vresult = NoRun
            /\ naturalLanguageRule = << >>
            /\ InitUi

\* the button "AI Corrections": setAiCorrections of the three lists, nothing
\* when a call throws
GenerateCorrections ==
    /\ ~crashed
    /\ LET r == generateAICorrections(clients, workers, tasks)
       IN  aiCorrections' = IF r.threw THEN aiCorrections ELSE r.value
    /\ UNCHANGED << pageVars, priorityWeights, normVars, runVars, grid,
                    aiRecommendations, businessRules >>

\* collection.map(row => row[key] === correction.id
\*                         ? { ...row, [correction.field]: correction.suggestedValue } : row)
Patched(rows, key, correction) ==
    [ i \in 1..Len(rows) |->
        IF rows[i][key] = correction.id
        THEN [rows[i] EXCEPT ![correction.field] = Num(correction.suggestedValue)]
        ELSE rows[i] ]

\* the button "Apply" of the k-th correction displayed; the entity is read
\* off the first letter of correction.id, a text here
applyCorrection(k) ==
    LET correction == aiCorrections[k]
        first == correction.id.s[1]
    IN  /\ correction.id.t = "str" /\ correction.id.s # << >>
        /\ IF first \in StartsWithC
           THEN handleDataChange("client", Patched(clients, "ClientID", correction))
           ELSE IF first \in StartsWithW
           THEN handleDataChange("worker", Patched(workers, "WorkerID", correction))
           ELSE handleDataChange("task", Patched(tasks, "TaskID", correction))
        \* prev.filter(c => c !== correction)
        /\ aiCorrections' = RemoveAt(aiCorrections, k)
        /\ UNCHANGED << grid, aiRecommendations, businessRules >>

ApplyCorrection == \E k \in 1..Len(aiCorrections) : applyCorrection(k)

NextApply == GenerateCorrections \/ ApplyCorrection

SpecApply == InitApply /\ [][NextApply]_vars

\* a step of Apply: the page handles a data change
AppliesCorrection == steps' = steps + 1

\* the stored clients with the ID have the level, and a run of
\* suggestCorrections on the stored collections proposes nothing for the ID
SettledAt(cs, ts, id, level) ==
    /\ \A i \in 1..Len(cs) : cs[i].ClientID = id => cs[i].PriorityLevel = Num(level)
    /\ LET again == suggestCorrections(cs, "client", ts)
       IN  ~again.threw /\ \A j \in 1..Len(again.value) : again.value[j].id # id

\* C26: applying a correction sets the PriorityLevel of the client with that
\* ClientID to the suggested value in the stored collection, for every
\* ClientID, and a following suggestCorrections run proposes no correction
\* for that client
C26_AppliedCorrectionSettles ==
    [][ AppliesCorrection =>
          \E k \in 1..Len(aiCorrections) :
              /\ aiCorrections' = RemoveAt(aiCorrections, k)
              /\ SettledAt(clients', tasks', aiCorrections[k].id,
                           aiCorrections[k].suggestedValue) ]_vars

\* what the code gives: the same for a ClientID that starts with the letter C
C26_AppliedCorrectionSettlesForC ==
    [][ AppliesCorrection =>
          \E k \in 1..Len(aiCorrections) :
              /\ aiCorrections' = RemoveAt(aiCorrections, k)
              /\ aiCorrections[k].id.s[1] \in StartsWithC =>
                     SettledAt(clients', tasks', aiCorrections[k].id,
                               aiCorrections[k].suggestedValue) ]_vars

-----------------------------------------------------------------------------
(* Slots errors against overloaded warnings in one result (C27).           *)

\* the entityIds of the errors of the result whose id starts with a prefix
ReportedFor(prefixes) ==
    { vresult.errors[k].entityId :
        k \in { j \in 1..Len(vresult.errors) : vresult.errors[j].id[1] \in prefixes } }

\* the row's own slots check reports an error of one of the kinds, and the
\* result holds it
GetsSlotsError(worker, prefixes) ==
    LET own == validateMalformedLists(<< worker >>)
    IN  /\ ~own.threw
        /\ \E k \in 1..Len(own.errors) : own.errors[k].id[1] \in prefixes
        /\ worker.WorkerID \in ReportedFor(prefixes)

\* the row's own overload check reports a warning, and the result holds it
GetsOverloaded(worker) ==
    IsOverloaded(worker) /\ worker.WorkerID \in ReportedFor({"overloaded-"})

\* C27: a worker with a malformed-slots or invalid-slots error in a result of
\* validateAll has no overloaded warning in the same result
C27_SlotsErrorExcludesOverloaded ==
    Returned =>
        \A i \in 1..Len(workers) :
            GetsSlotsError(workers[i], {"malformed-slots-", "invalid-slots-"})
                => ~GetsOverloaded(workers[i])

\* what the code gives: a worker with an invalid-slots error, whose
\* AvailableSlots does not parse, has no overloaded warning
C27_InvalidSlotsExcludesOverloaded ==
    Returned =>
        \A i \in 1..Len(workers) :
            GetsSlotsError(workers[i], {"invalid-slots-"}) => ~GetsOverloaded(workers[i])

-----------------------------------------------------------------------------
(* Load-limit recommendations against the loads of the groups (C28, C30).  *)

\* the MaxLoadPerPhase values of the workers of a group, in row order
LoadsOf(group) ==
    LET members == SelectSeq(workers, LAMBDA w : w.WorkerGroup = group)
    IN  [ k \in 1..Len(members) |-> members[k].MaxLoadPerPhase.n ]

\* the positions of the loadLimit recommendations for a group in the list
LoadLimitsFor(group) ==
    { r \in 1..Len(vresult.value) :
        /\ vresult.value[r].type = "loadLimit"
        /\ vresult.value[r].parameters.workerGroup = group }

\* max > 1.5 x mean, over the integers
AboveOneAndAHalfMeans(loads) == 10 * MaxOf(loads) * Len(loads) > 15 * SumOf(loads)

\* cap = floor(1.2 x mean), over the integers
IsFloorOfSixFifthsMean(cap, loads) ==
    /\ 5 * Len(loads) * cap <= 6 * SumOf(loads)
    /\ 6 * SumOf(loads) < 5 * Len(loads) * (cap + 1)

-----------------------------------------------------------------------------
(* Skill-gap recommendations against demand and supply (C29).              *)

\* the number of rows whose field key lists the skill
RowsListing(rows, key, skill) ==
    Cardinality({ i \in 1..Len(rows) : Occurrences(SkillEntries(<< rows[i] >>, key), skill) > 0 })

\* the positions of the patternMatch recommendations for a skill in the list
SkillGapsFor(skill) ==
    { r \in 1..Len(vresult.value) :
        /\ vresult.value[r].type = "patternMatch"
        /\ vresult.value[r].parameters.skill = skill }

\* the skills required by at least one task
RequiredSomewhere ==
    LET demanded == SkillEntries(tasks, "RequiredSkills")
    IN  { demanded[k] : k \in 1..Len(demanded) }

\* C29: for every skill required by at least one task, with demand the number
\* of tasks that require it and supply the number of workers that possess
\* it, the returned list has a patternMatch recommendation for the skill if
\* and only if supply / demand < 0.5, and at most one
C29_SkillGapIffSupplyUnderHalfDemand ==
    Recommended =>
        \A skill \in RequiredSomewhere :
            /\ SkillGapsFor(skill) # {}
                  <=> 2 * RowsListing(workers, "Skills", skill)
                        < RowsListing(tasks, "RequiredSkills", skill)
            /\ Cardinality(SkillGapsFor(skill)) <= 1

\* what the code gives: the same with demand and supply the numbers of
\* entries of the lists, a skill listed twice in one row counted twice
C29_SkillGapIffEntriesUnderHalf ==
    Recommended =>
        \A skill \in RequiredSomewhere :
            /\ SkillGapsFor(skill) # {} <=> 2 * SupplyOf(skill) < DemandOf(skill)
            /\ Cardinality(SkillGapsFor(skill)) <= 1

=============================================================================
